---- MODULE Spec2Model ----
(***************************************************************************)
(* Enrichment orchestrator of tabc-scrape:                                 *)
(*   DataEnrichmentPipeline (storage/enrichment_pipeline.py) over the      *)
(*   job and task-result tables of DatabaseManager (storage/database.py).  *)
(*                                                                         *)
(* A coroutine runs without interruption between two awaits, so one action *)
(* is one such segment: from the call (or from the return of the awaited   *)
(* enrichment task) up to the next await or to the return of the call.     *)
(* Text is a sequence of tokens; ":" and ";" are tokens of their own.      *)
(* The store answers reads and job updates reliably (spec section 5); a    *)
(* store_* call may fail and then returns False, as its code provides.     *)
(***************************************************************************)
EXTENDS Integers, Sequences, FiniteSets, TLC

\* ---- bounds --------------------------------------------------------------
\* coroutines in flight at a time: the largest batch
MaxCalls == 2
\* process_enrichment_job calls in flight at a time
MaxJobCalls == 1
\* job records ever created
MaxJobs == 1
\* rules added to the default ones with add_validation_rule
MaxAddedRules == 1

\* rows of the cluster of a dataset
MaxCluster == 10
\* rows of a dataset off the cluster
MaxExtras == 2

\* ---- program constants ---------------------------------------------------
NULL == "NULL"
NOW == "now()"
NoText == <<>>
ConfidenceThreshold == 30
TaskOrder == <<"concept_classification", "population_analysis", "square_footage">>
Tasks == {TaskOrder[i] : i \in 1..Len(TaskOrder)}
FailPrefix ==
  [t \in Tasks |->
     CASE t = "concept_classification" -> "Concept classification failed"
       [] t = "population_analysis" -> "Population analysis failed"
       [] OTHER -> "Square footage scraping failed"]

\* ---- inputs --------------------------------------------------------------
StoredIds == {"r1"}
RestaurantIds == StoredIds \cup {"r9"}
JobTypes == {"full_enrichment", "square_footage"}
\* an unsupported job never looks at its restaurant: one such job is enough
JobInputs == {<<r, "full_enrichment">> : r \in RestaurantIds} \cup {<<"r1", "square_footage">>}
ExcTexts == {<<"timeout">>}
\* what a task hands back: confidence in hundredths, census_data_available
\* as 0/1, square_footage as a number (0 for None)
TaskValues ==
  [t \in Tasks |->
     CASE t = "concept_classification" -> {20, 40}
       [] t = "population_analysis" -> {0, 1}
       [] OTHER -> {0, 1500}]
Outcomes(t) ==
  [raised : {TRUE}, exc : ExcTexts, value : {0}]
    \cup [raised : {FALSE}, exc : {NoText}, value : TaskValues[t]]
AllOutcomes ==
  {out \in [raised : BOOLEAN, exc : ExcTexts \cup {NoText},
            value : {0} \cup UNION {TaskValues[t] : t \in Tasks}] :
     \E t \in Tasks : out \in Outcomes(t)}
\* the outcomes the job lifecycle is driven with: a task raises, or hands back
\* its largest value
JobOutcomes ==
  {o \in AllOutcomes : o.raised \/ o.value \in {40, 1, 1500}}

VARIABLES restaurants, enabled, rows, jobs, calls, batch, pipeline, engine, analyzer

vars == <<restaurants, enabled, rows, jobs, calls, batch, pipeline, engine, analyzer>>

Slots == 1..MaxCalls

\* ---- records -------------------------------------------------------------
NoSummary == [kind |-> "none"]

EnrichmentResult(rid, success, errors, warnings, data_collected) ==
  [restaurant_id |-> rid, success |-> success, errors |-> errors,
   warnings |-> warnings, data_collected |-> data_collected]

NoResult == EnrichmentResult(NULL, FALSE, <<>>, <<>>, {})

IdleCall ==
  [kind |-> "none", rid |-> NULL, job_id |-> 0, member |-> 0, pc |-> "idle",
   errors |-> <<>>, warnings |-> <<>>, data_collected |-> {},
   trace |-> <<>>, inflight |-> {}, got |-> <<>>, persisted |-> <<>>,
   result |-> NoResult, ret |-> FALSE, exc |-> NoText]

EnrichmentJob(rid, job_type) ==
  [restaurant_id |-> rid, job_type |-> job_type, status |-> "pending",
   progress |-> 0, started_at |-> NULL, completed_at |-> NULL,
   error_message |-> NoText, results_summary |-> NoSummary]

\* ---- text ----------------------------------------------------------------
NotFoundMsg(rid) == <<"Restaurant", rid, "not found in database">>

TaskFailedMsg(t, exc) == <<FailPrefix[t], ":">> \o exc

LowMsg(t, value) ==
  CASE t = "concept_classification" ->
         <<"Low confidence in concept classification", ":", ToString(value)>>
    [] t = "population_analysis" -> <<"Population analysis returned no data">>
    [] OTHER -> <<"No square footage data found">>

UnsupportedMsg(job_type) == <<"Unsupported job type", ":", job_type>>

UnexpectedMsg(exc) == <<"Unexpected error", ":">> \o exc

CrashMsg(exc) == <<"Exception", ":">> \o exc

RECURSIVE Join(_)
Join(texts) ==
  IF Len(texts) = 0 THEN <<>>
  ELSE IF Len(texts) = 1 THEN texts[1]
  ELSE texts[1] \o <<";">> \o Join(Tail(texts))

FailedMsg(errors) == <<"Enrichment failed", ":">> \o Join(errors)

\* ---- DatabaseManager ------------------------------------------------------
get_restaurant_by_id(rid) == rid \in restaurants

\* slip: the rows the restaurant has in the table are not deleted first
store_task_result_added(rws, rid, t, value, ok) ==
  IF ok THEN [rws EXCEPT ![rid][t] = Append(@, value)] ELSE rws

\* delete the rows of the restaurant, add the new one; a failed session is
\* rolled back and leaves the table as it was
store_task_result(rws, rid, t, value, ok) ==
  IF ok THEN [rws EXCEPT ![rid][t] = <<value>>] ELSE rws

\* slip: the completion time is written for a completed job only
update_enrichment_job_status_untimed(js, job_id, status, progress, error_message, results_summary) ==
  IF job_id \notin DOMAIN js THEN js
  ELSE [js EXCEPT ![job_id] =
          [@ EXCEPT !.status = status,
                    !.progress = progress,
                    !.completed_at = IF status = "completed" THEN NOW ELSE @,
                    !.error_message = IF status = "failed" THEN error_message ELSE @,
                    !.results_summary =
                       IF results_summary # NoSummary THEN results_summary ELSE @]]

update_enrichment_job_status(js, job_id, status, progress, error_message, results_summary) ==
  IF job_id \notin DOMAIN js THEN js
  ELSE [js EXCEPT ![job_id] =
          [@ EXCEPT !.status = status,
                    !.progress = progress,
                    !.completed_at =
                       IF status \in {"completed", "failed"} THEN NOW ELSE @,
                    !.error_message = IF status = "failed" THEN error_message ELSE @,
                    !.results_summary =
                       IF results_summary # NoSummary THEN results_summary ELSE @]]

\* ---- enrich_single_restaurant ---------------------------------------------
\* slip: the threshold test is left out
Accepted_always(t, value) == TRUE

Accepted(t, value) ==
  IF t = "concept_classification" THEN value > ConfidenceThreshold ELSE value # 0

TaskIndex(t) == CHOOSE i \in 1..Len(TaskOrder) : TaskOrder[i] = t

\* slip: a call that collected something counts as a success
ReturnResult_partial(call) ==
  [call EXCEPT !.pc = "done",
               !.result = EnrichmentResult(call.rid,
                                           Len(call.errors) = 0 \/ call.data_collected # {},
                                           call.errors, call.warnings, call.data_collected)]

ReturnResult(call) ==
  [call EXCEPT !.pc = "done",
               !.result = EnrichmentResult(call.rid, Len(call.errors) = 0, call.errors,
                                           call.warnings, call.data_collected)]

\* slip: the remaining tasks are all started together, as in a gather
RunTasksFrom_together(call, i) ==
  LET todo == {j \in i..Len(TaskOrder) : TaskOrder[j] \in enabled}
  IN IF todo = {} THEN ReturnResult(call)
     ELSE LET j == CHOOSE k \in todo : \A m \in todo : k <= m
          IN [call EXCEPT !.pc = TaskOrder[j],
                          !.trace = Append(@, TaskOrder[j]),
                          !.inflight = @ \cup {TaskOrder[k] : k \in todo}]

\* the code from the i-th task block on, up to the next await or the return
RunTasksFrom(call, i) ==
  LET todo == {j \in i..Len(TaskOrder) : TaskOrder[j] \in enabled}
  IN IF todo = {} THEN ReturnResult(call)
     ELSE LET j == CHOOSE k \in todo : \A m \in todo : k <= m
              t == TaskOrder[j]
          IN [call EXCEPT !.pc = t,
                          !.trace = Append(@, t),
                          !.inflight = @ \cup {t}]

\* the outer handler: whatever was gathered so far is replaced by one error
UnexpectedError(call, exc) ==
  [call EXCEPT !.pc = "done",
               !.result = EnrichmentResult(call.rid, FALSE, <<UnexpectedMsg(exc)>>,
                                           call.warnings, {})]

\* entry of enrich_single_restaurant up to the first await
EnrichEntry(call) ==
  IF ~get_restaurant_by_id(call.rid)
  THEN [call EXCEPT !.pc = "done",
                    !.errors = <<NotFoundMsg(call.rid)>>,
                    !.result = EnrichmentResult(call.rid, FALSE, <<NotFoundMsg(call.rid)>>,
                                                call.warnings, {})]
  ELSE RunTasksFrom(call, 1)

\* the rest of the task block of t once the awaited task is back
HandleOutcome(call, t, out) ==
  LET back == [call EXCEPT !.inflight = @ \ {t},
                           !.got = Append(@, [task |-> t, raised |-> out.raised,
                                              value |-> out.value])]
  IN IF out.raised
     THEN [back EXCEPT !.errors = Append(@, TaskFailedMsg(t, out.exc))]
     ELSE IF Accepted(t, out.value)
     THEN [back EXCEPT !.data_collected = @ \cup {t},
                       !.persisted = Append(@, [task |-> t, rid |-> call.rid,
                                                value |-> out.value])]
     ELSE [back EXCEPT !.warnings = Append(@, LowMsg(t, out.value))]

PersistCalled(t, out) == ~out.raised /\ Accepted(t, out.value)

\* slip: one try block around all the tasks, so the first raise ends the call
AfterTask_abort(call, t, out) ==
  IF out.raised
  THEN ReturnResult(HandleOutcome(call, t, out))
  ELSE RunTasksFrom(HandleOutcome(call, t, out), TaskIndex(t) + 1)

\* from the return of the awaited task t to the next await or the return
AfterTask(call, t, out) == RunTasksFrom(HandleOutcome(call, t, out), TaskIndex(t) + 1)

\* ---- process_enrichment_job -----------------------------------------------
RecordJobResult(js, job_id, result) ==
  IF result.success
  THEN update_enrichment_job_status(js, job_id, "completed", 100, NoText,
         [kind |-> "completed", data_collected |-> result.data_collected])
  ELSE update_enrichment_job_status(js, job_id, "failed", 0, FailedMsg(result.errors),
         [kind |-> "failed", errors |-> result.errors, warnings |-> result.warnings])

\* what the job call does once the result of the enrichment is there
AfterEnrich(call) ==
  IF call.pc = "done" /\ call.kind = "job"
  THEN [call EXCEPT !.ret = call.result.success]
  ELSE call

\* slip: the result of the enrichment is never written to the job
JobsAfter_unrecorded(js, call) == js

JobsAfter(js, call) ==
  IF call.pc = "done" /\ call.kind = "job"
  THEN RecordJobResult(js, call.job_id, call.result)
  ELSE js

\* slip: a missing job is reported as processed
JobNotFound_true(job_id) ==
  [IdleCall EXCEPT !.kind = "job", !.job_id = job_id, !.pc = "done", !.ret = TRUE]

JobNotFound(job_id) ==
  [IdleCall EXCEPT !.kind = "job", !.job_id = job_id, !.pc = "done", !.ret = FALSE]

MarkRunning(js, job_id) ==
  [js EXCEPT ![job_id] = [@ EXCEPT !.status = "running", !.started_at = NOW]]

\* slip: every job type is run as a full enrichment
JobDispatch_any(call, job) == EnrichEntry(call)

JobDispatch(call, job) ==
  IF job.job_type = "full_enrichment"
  THEN EnrichEntry(call)
  ELSE [call EXCEPT !.pc = "done",
                    !.result = EnrichmentResult(job.restaurant_id, FALSE,
                                   <<UnsupportedMsg(job.job_type)>>, <<>>, {})]

\* ---- enrich_restaurants_batch ----------------------------------------------
\* slip: what a crashed coroutine left behind is passed on as it is
FinalResult_raw(call, rid) == call.result

\* one entry of final_results: an exception in the gathered list becomes a
\* failed result of the id at that position
FinalResult(call, rid) ==
  IF call.pc = "raised"
  THEN EnrichmentResult(rid, FALSE, <<CrashMsg(call.exc)>>, <<>>, {})
  ELSE call.result

\* slip: the results are handed back last first
GatherResults_reversed(cs, ids) ==
  [i \in 1..Len(ids) |-> FinalResult(cs[Len(ids) + 1 - i], ids[Len(ids) + 1 - i])]

\* gather keeps the order of its arguments whatever the order of completion
GatherResults(cs, ids) == [i \in 1..Len(ids) |-> FinalResult(cs[i], ids[i])]

\* every coroutine of the gather has ended, with a result or with an exception
GatherDone == \A c \in 1..Len(batch.ids) : calls[c].pc \in {"done", "raised"}

\* ---- run_full_enrichment_pipeline ------------------------------------------
\* the configured batch size (10 in __init__), scaled to the model
batch_size == MaxCalls

\* the event loop of a pipeline run has room for more coroutines than one batch
PipelineSlots == 1..(batch_size + 1)

\* the rows of the restaurants table in the order a query hands them back
TableOrder == <<"r1", "r2", "r3">>
TableIds == {TableOrder[i] : i \in 1..Len(TableOrder)}
Stores == {{}, {"r1"}, TableIds}

\* limit: Optional[int]
NoLimit == [given |-> FALSE, n |-> 0]
Limits == {NoLimit} \cup [given : {TRUE}, n : 0..Len(TableOrder)]

Min(a, b) == IF a <= b THEN a ELSE b

\* the ids of the loaded rows: limit is applied only when it is truthy
get_restaurants_dataframe(limit) ==
  LET all == SelectSeq(TableOrder, LAMBDA r : r \in restaurants)
  IN IF limit.given /\ limit.n # 0
     THEN SubSeq(all, 1, Min(limit.n, Len(all)))
     ELSE all

EmptyDict == [k \in {} |-> 0]

PipelineStats(total, successful, failed, data_sources, error_summary) ==
  [total_restaurants |-> total, successful_enrichments |-> successful,
   failed_enrichments |-> failed, data_sources_used |-> data_sources,
   error_summary |-> error_summary]

IdlePipeline ==
  [phase |-> "idle", limit |-> NoLimit, restaurant_ids |-> <<>>, i |-> 0,
   all_results |-> <<>>, enriched |-> <<>>,
   stats |-> PipelineStats(0, 0, 0, EmptyDict, EmptyDict)]

\* slip: the rest of the ids goes into one batch
Partition_all(ids, i) == SubSeq(ids, i + 1, Len(ids))

\* restaurant_ids[i:i + batch_size]
Partition(ids, i) == SubSeq(ids, i + 1, Min(i + batch_size, Len(ids)))

\* one coroutine per id of the batch, in order
BatchCalls(ids) ==
  [c \in PipelineSlots |->
     IF c <= Len(ids)
     THEN [IdleCall EXCEPT !.kind = "enrich", !.rid = ids[c], !.member = c, !.pc = "created"]
     ELSE IdleCall]

\* what str() of an exception that ends a coroutine says: with or without ':'
CrashTexts == ExcTexts \cup {<<"HTTPError", ":", "404">>}

\* slip: the results of the batch replace the ones gathered before
Extend_replace(all_results, batch_results) == batch_results

\* all_results.extend(batch_results)
Extend(all_results, batch_results) == all_results \o batch_results

DataSources(results) ==
  LET holds(t) == {i \in 1..Len(results) : t \in results[i].data_collected}
  IN [t \in {u \in Tasks : holds(u) # {}} |-> Cardinality(holds(t))]

\* slip: the key is the text before the last ':'
ErrorType_last(error) ==
  IF \E k \in 1..Len(error) : error[k] = ":"
  THEN SubSeq(error, 1, (CHOOSE k \in 1..Len(error) :
                           error[k] = ":" /\ \A m \in (k + 1)..Len(error) : error[m] # ":") - 1)
  ELSE <<"Unknown">>

\* error.split(':')[0] if ':' in error else 'Unknown'
ErrorType(error) ==
  IF \E k \in 1..Len(error) : error[k] = ":"
  THEN SubSeq(error, 1, (CHOOSE k \in 1..Len(error) :
                           error[k] = ":" /\ \A m \in 1..(k - 1) : error[m] # ":") - 1)
  ELSE <<"Unknown">>

ErrorSummary(results) ==
  LET occ == UNION {{<<i, j>> : j \in 1..Len(results[i].errors)} : i \in 1..Len(results)}
      type(o) == ErrorType(results[o[1]].errors[o[2]])
  IN [k \in {type(o) : o \in occ} |-> Cardinality({o \in occ : type(o) = k})]

ComputeStats(ids, results) ==
  LET successful == Cardinality({i \in 1..Len(results) : results[i].success})
  IN PipelineStats(Len(ids), successful, Len(results) - successful,
                   DataSources(results), ErrorSummary(results))

\* ---- ValidationEngine --------------------------------------------------------
\* a field value: None, a string (its text) or a number
None == [kind |-> "none", text |-> <<>>, num |-> 0]
Str(text) == [kind |-> "str", text |-> text, num |-> 0]
Num(n) == [kind |-> "num", text |-> <<>>, num |-> n]
\* float('nan'): what a missing cell of a numeric column of a DataFrame holds
NaN == [kind |-> "nan", text |-> <<>>, num |-> 0]

ZIP_PATTERN == "^\\d{5}(-\\d{4})?$"
VALID_STATES_SET ==
  {"AL", "AK", "AZ", "AR", "CA", "CO", "CT", "DE", "FL", "GA",
   "HI", "ID", "IL", "IN", "IA", "KS", "KY", "LA", "ME", "MD",
   "MA", "MI", "MN", "MS", "MO", "MT", "NE", "NV", "NH", "NJ",
   "NM", "NY", "NC", "ND", "OH", "OK", "OR", "PA", "RI", "SC",
   "SD", "TN", "TX", "UT", "VT", "VA", "WA", "WV", "WI", "WY"}

NoParams ==
  [required |-> FALSE, has_min |-> FALSE, min |-> 0, has_max |-> FALSE, max |-> 0,
   pattern |-> NULL, has_valid_values |-> FALSE, valid_values |-> {},
   reference_field |-> NULL]

ValidationRule(name, description, field, rule_type, parameters, severity, is_enabled) ==
  [name |-> name, description |-> description, field |-> field, rule_type |-> rule_type,
   parameters |-> parameters, severity |-> severity, enabled |-> is_enabled]

Range(min, max) == [NoParams EXCEPT !.has_min = TRUE, !.min = min, !.has_max = TRUE, !.max = max]

\* confidence in hundredths, as in the orchestrator
DefaultRules ==
  << ValidationRule("required_location_name", "Location name is required", "location_name",
                    "completeness", [NoParams EXCEPT !.required = TRUE], "error", TRUE),
     ValidationRule("required_address", "Address information is required", "location_address",
                    "completeness", [NoParams EXCEPT !.required = TRUE], "error", TRUE),
     ValidationRule("required_receipts", "Receipt data should be present", "total_receipts",
                    "completeness", [NoParams EXCEPT !.required = TRUE], "warning", TRUE),
     ValidationRule("valid_zip_format", "ZIP code must be 5 digits", "location_zip",
                    "format", [NoParams EXCEPT !.pattern = ZIP_PATTERN], "error", TRUE),
     ValidationRule("valid_state_format", "State must be valid two-letter code", "location_state",
                    "format", [NoParams EXCEPT !.has_valid_values = TRUE,
                                               !.valid_values = VALID_STATES_SET], "error", TRUE),
     ValidationRule("reasonable_receipts", "Total receipts should be reasonable for a restaurant",
                    "total_receipts", "range", Range(0, 10000000), "warning", TRUE),
     ValidationRule("valid_latitude", "Latitude must be valid", "latitude",
                    "range", Range(-90, 90), "error", TRUE),
     ValidationRule("valid_longitude", "Longitude must be valid", "longitude",
                    "range", Range(-180, 180), "error", TRUE),
     ValidationRule("address_city_consistency", "City should be consistent in address",
                    "location_address", "consistency",
                    [NoParams EXCEPT !.reference_field = "location_city"], "warning", TRUE),
     ValidationRule("concept_confidence_threshold",
                    "Concept classification confidence should meet threshold",
                    "concept_confidence", "range",
                    [NoParams EXCEPT !.has_min = TRUE, !.min = ConfidenceThreshold], "warning", TRUE),
     ValidationRule("reasonable_population", "Population within 1 mile should be reasonable",
                    "population_1_mile", "range", Range(0, 100000), "warning", TRUE),
     ValidationRule("reasonable_square_footage",
                    "Square footage should be reasonable for restaurant",
                    "square_footage", "range", Range(100, 50000), "warning", TRUE) >>

\* rules a caller adds: a second required rule on a field, a disabled rule, a
\* format rule whose pattern does not compile, a custom rule, an optional field
AddableRules ==
  { ValidationRule("receipts_present", "Receipts are required", "total_receipts",
                   "completeness", [NoParams EXCEPT !.required = TRUE], "error", TRUE),
    ValidationRule("small_receipts", "Receipts of a small business", "total_receipts",
                   "range", Range(0, 100), "error", FALSE),
    ValidationRule("name_pattern", "Name must match", "location_name",
                   "format", [NoParams EXCEPT !.pattern = "("], "info", TRUE),
    ValidationRule("custom_name", "Custom check of the name", "location_name",
                   "custom", NoParams, "info", TRUE),
    ValidationRule("optional_city", "City is optional", "location_city",
                   "completeness", NoParams, "warning", TRUE) }

Fields ==
  {"location_name", "location_address", "location_city", "total_receipts", "location_zip",
   "location_state", "latitude", "longitude", "concept_confidence", "population_1_mile",
   "square_footage"}

\* the records the engine is given: record.get(field) of an absent key is None
FieldValues ==
  [f \in Fields |->
     CASE f = "location_name" -> {None, Str(<<"Cafe">>)}
       [] f = "location_address" ->
            {None, Str(<<>>), Num(123), Str(<<"123 Main St">>),
             Str(<<"123 Main St", ", ", "Houston">>),
             Str(<<"123 Main St", " ", "location_city">>)}
       [] f = "location_city" -> {None, Str(<<"Houston">>), Str(<<"houston">>)}
       [] f = "total_receipts" ->
            {None, Num(-5), Num(0), Num(20000000), Str(<<"a", "b", "c">>), Str(<<" ", "7">>)}
       [] f = "location_zip" -> {None, Str(<<"7", "7">>), Str(<<"7", "7", "0", "0", "1">>)}
       [] f = "location_state" -> {None, Str(<<"tx">>), Str(<<"ZZ">>)}
       [] OTHER -> {None}]
Records ==
  [location_name : FieldValues["location_name"],
   location_address : FieldValues["location_address"],
   location_city : FieldValues["location_city"],
   total_receipts : FieldValues["total_receipts"],
   location_zip : FieldValues["location_zip"],
   location_state : FieldValues["location_state"],
   latitude : FieldValues["latitude"], longitude : FieldValues["longitude"],
   concept_confidence : FieldValues["concept_confidence"],
   population_1_mile : FieldValues["population_1_mile"],
   square_footage : FieldValues["square_footage"]]
NoRecord == [f \in Fields |-> None]

\* rule_index: the place of the rule in the rule list (not a field of the code)
ValidationResult(rule, k, severity, message) ==
  [rule_name |-> rule.name, field |-> rule.field, is_valid |-> FALSE,
   severity |-> severity, message |-> message, rule_index |-> k]

\* what applying a rule gives: no result, one result, or an exception
Return(results) == [raised |-> FALSE, exc |-> NoText, results |-> results]
Raise(exc) == [raised |-> TRUE, exc |-> exc, results |-> <<>>]

\* field_value is None or field_value == ''
Missing(v) == v.kind = "none" \/ (v.kind = "str" /\ v.text = <<>>)

\* the truth value of a field value
Truthy(v) ==
  CASE v.kind = "none" -> FALSE
    [] v.kind = "str" -> v.text # <<>>
    [] v.kind = "nan" -> TRUE
    [] OTHER -> v.num # 0

\* str(value)
StrOf(v) ==
  CASE v.kind = "str" -> v.text
    [] v.kind = "num" -> <<ToString(v.num)>>
    [] v.kind = "nan" -> <<"nan">>
    [] OTHER -> <<"None">>

LowerToken(tok) ==
  CASE tok = "Houston" -> "houston"
    [] tok = "123 Main St" -> "123 main st"
    [] tok = "ZZ" -> "zz"
    [] tok = "Cafe" -> "cafe"
    [] tok = "None" -> "none"
    [] OTHER -> tok
Lower(text) == [i \in 1..Len(text) |-> LowerToken(text[i])]

UpperToken(tok) ==
  CASE tok = "tx" -> "TX"
    [] OTHER -> tok
Upper(text) == [i \in 1..Len(text) |-> UpperToken(text[i])]

\* a in b, for two texts
Contains(a, b) ==
  \E k \in 0..(Len(b) - Len(a)) : \A i \in 1..Len(a) : b[k + i] = a[i]

Digits == {"0", "1", "2", "3", "4", "5", "6", "7", "8", "9"}
DigitVal(ch) == CHOOSE d \in 0..9 : ToString(d) = ch

RECURSIVE DigitsValue(_)
DigitsValue(text) ==
  IF text = <<>> THEN 0
  ELSE DigitsValue(SubSeq(text, 1, Len(text) - 1)) * 10 + DigitVal(text[Len(text)])

RECURSIVE Strip(_)
Strip(text) ==
  IF text # <<>> /\ text[1] = " " THEN Strip(Tail(text))
  ELSE IF text # <<>> /\ text[Len(text)] = " " THEN Strip(SubSeq(text, 1, Len(text) - 1))
  ELSE text

\* float(value): a number as it is; a string is stripped, then an optional
\* sign and digits; anything else is a ValueError. nan: the number is not a
\* number, and every comparison with it is false
FloatOf(v) ==
  IF v.kind = "num" THEN [ok |-> TRUE, num |-> v.num, nan |-> FALSE]
  ELSE IF v.kind = "nan" THEN [ok |-> TRUE, num |-> 0, nan |-> TRUE]
  ELSE IF v.kind = "none" THEN [ok |-> FALSE, num |-> 0, nan |-> FALSE]
  ELSE LET s == Strip(v.text)
           signed == s # <<>> /\ s[1] \in {"-", "+"}
           body == IF signed THEN Tail(s) ELSE s
       IN IF body # <<>> /\ \A i \in 1..Len(body) : body[i] \in Digits
          THEN [ok |-> TRUE, nan |-> FALSE,
                num |-> IF signed /\ s[1] = "-" THEN 0 - DigitsValue(body) ELSE DigitsValue(body)]
          ELSE [ok |-> FALSE, num |-> 0, nan |-> FALSE]

\* re.compile(pattern) raises
CompileFails(pattern) == pattern = "("

\* compiled_pattern.match(text), for the patterns in use
Matches(pattern, text) ==
  /\ pattern = ZIP_PATTERN
  /\ \/ Len(text) = 5 /\ \A i \in 1..5 : text[i] \in Digits
     \/ /\ Len(text) = 10 /\ text[6] = "-"
        /\ \A i \in (1..5) \cup (7..10) : text[i] \in Digits

validate_format(rule, value, k) ==
  LET p == rule.parameters
  IN IF p.pattern # NULL /\ CompileFails(p.pattern)
     THEN Raise(<<"re.error">>)
     ELSE IF p.pattern # NULL /\ ~Matches(p.pattern, StrOf(value))
     THEN Return(<<ValidationResult(rule, k, rule.severity,
                     <<"Format validation failed for pattern", ":", p.pattern>>)>>)
     ELSE IF p.has_valid_values
             /\ ~(Len(StrOf(value)) = 1 /\ Upper(StrOf(value))[1] \in p.valid_values)
     THEN Return(<<ValidationResult(rule, k, rule.severity,
                     <<"Value not in valid set", ":", "valid_values">>)>>)
     ELSE Return(<<>>)

\* slip: a value equal to the minimum counts as below it
validate_range_inclusive(rule, value, k) ==
  LET p == rule.parameters
      f == FloatOf(value)
  IN IF ~f.ok
     THEN Return(<<ValidationResult(rule, k, rule.severity, <<"Value is not numeric">>)>>)
     ELSE IF p.has_min /\ ~f.nan /\ f.num <= p.min
     THEN Return(<<ValidationResult(rule, k, rule.severity,
                     <<"Value below minimum", ":", ToString(p.min)>>)>>)
     ELSE IF p.has_max /\ ~f.nan /\ f.num > p.max
     THEN Return(<<ValidationResult(rule, k, rule.severity,
                     <<"Value above maximum", ":", ToString(p.max)>>)>>)
     ELSE Return(<<>>)

validate_range(rule, value, k) ==
  LET p == rule.parameters
      f == FloatOf(value)
  IN IF ~f.ok
     THEN Return(<<ValidationResult(rule, k, rule.severity, <<"Value is not numeric">>)>>)
     ELSE IF p.has_min /\ ~f.nan /\ f.num < p.min
     THEN Return(<<ValidationResult(rule, k, rule.severity,
                     <<"Value below minimum", ":", ToString(p.min)>>)>>)
     ELSE IF p.has_max /\ ~f.nan /\ f.num > p.max
     THEN Return(<<ValidationResult(rule, k, rule.severity,
                     <<"Value above maximum", ":", ToString(p.max)>>)>>)
     ELSE Return(<<>>)

validate_completeness(rule, value, k) ==
  IF rule.parameters.required /\ Missing(value)
  THEN Return(<<ValidationResult(rule, k, rule.severity,
                  <<"Required field is missing or empty">>)>>)
  ELSE Return(<<>>)

\* the test before the comparison looks for the NAME of the reference field in
\* the target value; a target that is not a string makes it raise
validate_consistency(rule, record, k) ==
  LET ref_field == rule.parameters.reference_field
      ref_value == record[ref_field]
      target == record[rule.field]
  IN IF ref_field = NULL \/ ~Truthy(ref_value) THEN Return(<<>>)
     ELSE IF target.kind # "str" THEN Raise(<<"TypeError">>)
     ELSE IF Contains(<<ref_field>>, target.text)
             /\ ~Contains(Lower(StrOf(ref_value)), Lower(StrOf(target)))
     THEN Return(<<ValidationResult(rule, k, rule.severity,
                     <<"Field should contain reference value from", ref_field>>)>>)
     ELSE Return(<<>>)

validate_custom(rule, value, record, k) == Return(<<>>)

\* slip: a missing value is handed to the rule like any other
apply_rule_noskip(rule, record, k) ==
  LET field_value == record[rule.field]
  IN IF Missing(field_value) /\ rule.rule_type = "completeness" /\ rule.parameters.required
     THEN Return(<<ValidationResult(rule, k, rule.severity, <<rule.description>>)>>)
     ELSE CASE rule.rule_type = "format" -> validate_format(rule, field_value, k)
            [] rule.rule_type = "range" -> validate_range(rule, field_value, k)
            [] rule.rule_type = "completeness" -> validate_completeness(rule, field_value, k)
            [] rule.rule_type = "consistency" -> validate_consistency(rule, record, k)
            [] rule.rule_type = "custom" -> validate_custom(rule, field_value, record, k)
            [] OTHER -> Return(<<>>)

apply_rule(rule, record, k) ==
  LET field_value == record[rule.field]
  IN IF Missing(field_value)
     THEN IF rule.rule_type = "completeness" /\ rule.parameters.required
          THEN Return(<<ValidationResult(rule, k, rule.severity, <<rule.description>>)>>)
          ELSE Return(<<>>)
     ELSE CASE rule.rule_type = "format" -> validate_format(rule, field_value, k)
            [] rule.rule_type = "range" -> validate_range(rule, field_value, k)
            [] rule.rule_type = "completeness" -> validate_completeness(rule, field_value, k)
            [] rule.rule_type = "consistency" -> validate_consistency(rule, record, k)
            [] rule.rule_type = "custom" -> validate_custom(rule, field_value, record, k)
            [] OTHER -> Return(<<>>)

\* the result the handler of validate_record puts in place of an exception
RuleError(rule, k, exc) ==
  ValidationResult(rule, k, "error", <<"Rule application error", ":">> \o exc)

\* slip: no handler around the rule, the first exception ends the loop
RECURSIVE ApplyRulesFrom_abort(_, _, _)
ApplyRulesFrom_abort(rules, record, k) ==
  IF k > Len(rules) THEN <<>>
  ELSE IF ~rules[k].enabled THEN ApplyRulesFrom_abort(rules, record, k + 1)
  ELSE LET o == apply_rule(rules[k], record, k)
       IN IF o.raised THEN <<>>
          ELSE o.results \o ApplyRulesFrom_abort(rules, record, k + 1)

\* the loop of validate_record from the k-th rule on
RECURSIVE ApplyRulesFrom(_, _, _)
ApplyRulesFrom(rules, record, k) ==
  IF k > Len(rules) THEN <<>>
  ELSE IF ~rules[k].enabled THEN ApplyRulesFrom(rules, record, k + 1)
  ELSE LET o == apply_rule(rules[k], record, k)
       IN (IF o.raised THEN <<RuleError(rules[k], k, o.exc)>> ELSE o.results)
            \o ApplyRulesFrom(rules, record, k + 1)

NewEngine ==
  [phase |-> "ready", validation_rules |-> DefaultRules, record |-> NoRecord, results |-> <<>>]

\* no DataQualityAnalyzer has been made
NoAnalyzer == [phase |-> "none"]

\* no ValidationEngine has been made: the orchestrator does not hold one
NoEngine == [phase |-> "none", validation_rules |-> <<>>, record |-> <<>>, results |-> <<>>]

\* ---- DataQualityAnalyzer ------------------------------------------------------
\* the columns of a dataset that has rows; the cells hold objects
DataColumns ==
  {"location_name", "location_address", "location_city", "location_state",
   "total_receipts", "square_footage"}
Columns == {"id"} \cup DataColumns

Row(id, name, address, city, state, receipts, sqft) ==
  [id |-> Str(<<id>>), location_name |-> name, location_address |-> address,
   location_city |-> city, location_state |-> state, total_receipts |-> receipts,
   square_footage |-> sqft]

HoustonAddress == Str(<<"123 Main St", ", ", "Houston">>)

\* a clean row whose receipts are near 100
ClusterRow(i) ==
  Row(ToString(i), Str(<<"Cafe", ToString(i)>>), HoustonAddress, Str(<<"Houston">>),
      Str(<<"TX">>), Num(98 + (i % 5)), Num(1500))

Cluster(k) == [i \in 1..k |-> ClusterRow(i)]

\* rows off the cluster: receipts of 5000; the name, address and city of the
\* first cluster row; a row with most cells missing; a row with a bad state,
\* text for receipts and a huge area
ExtraRows ==
  { Row("e1", Str(<<"Cafe", "big">>), HoustonAddress, Str(<<"Houston">>), Str(<<"TX">>),
        Num(5000), Num(1500)),
    Row("e2", Str(<<"Cafe", "1">>), HoustonAddress, Str(<<"Houston">>), Str(<<"tx">>),
        Num(100), Num(1500)),
    Row("e3", None, Str(<<"123 Main St">>), None, None, None, None),
    Row("e4", Str(<<"Cafe", "odd">>), HoustonAddress, Str(<<"Houston">>), Str(<<"ZZ">>),
        Str(<<"a", "b", "c">>), Num(90000)) }

\* no cluster, one row, and clusters about as large as the least count of
\* values outlier detection asks for
ClusterSizes == (0..1) \cup ((MaxCluster - 1)..MaxCluster)

\* the datasets the analyzer is given: a cluster followed by a few other rows,
\* no row twice (id is the primary key of the table the frames are read from)
Datasets ==
  {Cluster(k) \o extra :
     k \in ClusterSizes,
     extra \in {e \in UNION {[1..n -> ExtraRows] : n \in 0..MaxExtras} :
                 \A i, j \in DOMAIN e : i # j => e[i] # e[j]}}

\* a column holds floats when its cells are numbers and missing cells only
IsNumericColumn(df, f) ==
  /\ \E i \in 1..Len(df) : df[i][f].kind = "num"
  /\ \A i \in 1..Len(df) : df[i][f].kind \in {"num", "none"}

\* df.isnull()
IsNull(v) == v.kind \in {"none", "nan"}

\* record.to_dict() of the i-th row of iterrows(): a missing cell of a numeric
\* column is nan, of any other column None; a key the row lacks reads as None
RecordOf(df, i) ==
  [f \in Fields |->
     IF f \notin Columns THEN None
     ELSE IF df[i][f].kind = "none" /\ IsNumericColumn(df, f) THEN NaN
     ELSE df[i][f]]

\* str(record.get('id', ...))
RecordId(df, i) == StrOf(df[i].id)

WithRecordId(r, record_id) ==
  [rule_name |-> r.rule_name, field |-> r.field, is_valid |-> r.is_valid,
   severity |-> r.severity, message |-> r.message, rule_index |-> r.rule_index,
   record_id |-> record_id]

\* the loop over iterrows(): all_results.extend(validate_record(...))
RECURSIVE ValidateRows(_, _, _)
ValidateRows(rules, df, i) ==
  IF i > Len(df) THEN <<>>
  ELSE LET results == ApplyRulesFrom(rules, RecordOf(df, i), 1)
       IN [j \in 1..Len(results) |-> WithRecordId(results[j], RecordId(df, i))]
            \o ValidateRows(rules, df, i + 1)

\* sum(1 for r in seq if P(r))
Count(seq, P(_)) == Cardinality({i \in 1..Len(seq) : P(seq[i])})

\* round(num / den, 3) in thousandths, for 0 <= num and 0 < den: the set of
\* the values the float can come to. A quotient half way between two
\* thousandths that a float holds exactly (an odd multiple of 1/16) goes to the
\* even one; any other half way quotient goes where the nearest float lies,
\* up or down
Round3(num, den) ==
  LET q == (1000 * num) \div den
      rest == 2 * ((1000 * num) % den)
  IN IF rest < den THEN {q}
     ELSE IF rest > den THEN {q + 1}
     ELSE IF (2 * q + 1) % 125 = 0 THEN {IF q % 2 = 0 THEN q ELSE q + 1}
     ELSE {q, q + 1}

\* the same for a quotient that was added up from several floats: the sum may
\* be off the exact value, so every half way quotient may go up or down
Round3Sum(num, den) ==
  LET q == (1000 * num) \div den
      rest == 2 * ((1000 * num) % den)
  IN IF rest < den THEN {q}
     ELSE IF rest > den THEN {q + 1}
     ELSE {q, q + 1}

\* scores are held in thousandths
One == 1000

\* slip: a dataset without records scores zero
calculate_overall_quality_score_unguarded(rules, results, total_records) ==
  LET error_count == Count(results, LAMBDA r : ~r.is_valid /\ r.severity = "error")
      warning_count == Count(results, LAMBDA r : ~r.is_valid /\ r.severity = "warning")
      max_possible_issues == total_records * Len(rules)
      twice == 2 * error_count + warning_count
  IN IF max_possible_issues = 0 \/ twice >= 2 * max_possible_issues THEN {0}
     ELSE Round3(2 * max_possible_issues - twice, 2 * max_possible_issues)

\* max(0.0, 1.0 - (errors * 1.0 + warnings * 0.5) / (records * rules))
calculate_overall_quality_score(rules, results, total_records) ==
  IF total_records = 0 THEN {One}
  ELSE LET error_count == Count(results, LAMBDA r : ~r.is_valid /\ r.severity = "error")
           warning_count == Count(results, LAMBDA r : ~r.is_valid /\ r.severity = "warning")
           max_possible_issues == total_records * Len(rules)
           twice == 2 * error_count + warning_count
       IN IF max_possible_issues = 0 THEN {One}
          ELSE IF twice >= 2 * max_possible_issues THEN {0}
          ELSE Round3(2 * max_possible_issues - twice, 2 * max_possible_issues)

KeyFields ==
  {"location_name", "location_address", "location_city", "location_state", "location_zip",
   "total_receipts"}

\* the mean over the key fields the dataset has of the share of cells that
\* are not null
calculate_completeness_score(df) ==
  IF Len(df) = 0 THEN {One}
  ELSE LET present == KeyFields \cap Columns
           filled == Cardinality({e \in present \X (1..Len(df)) : ~IsNull(df[e[2]][e[1]])})
       IN IF present = {} THEN {One}
          ELSE Round3Sum(filled, Cardinality(present) * Len(df))

calculate_accuracy_score(results) ==
  IF Len(results) = 0 THEN {One}
  ELSE Round3(Count(results, LAMBDA r : r.is_valid), Len(results))

\* str(v) of a cell of a row: a missing cell of a numeric column reads 'nan'
CellText(df, i, f) ==
  IF df[i][f].kind = "none" /\ IsNumericColumn(df, f) THEN StrOf(NaN) ELSE StrOf(df[i][f])

\* len(str(state)) == 2, for the texts in use
TwoLetters(text) ==
  Len(text) = 1 /\ text[1] \in VALID_STATES_SET \cup {"tx", "ZZ", "zz"}

\* the mean of the share of rows whose city is in the address, compared
\* without case, and of the share of rows whose state has two characters
calculate_consistency_score(df) ==
  IF Len(df) = 0 THEN {One}
  ELSE LET city_in_address ==
             {i \in 1..Len(df) :
                Contains(Lower(CellText(df, i, "location_city")),
                         Lower(CellText(df, i, "location_address")))}
           valid_states == {i \in 1..Len(df) : TwoLetters(CellText(df, i, "location_state"))}
       IN Round3Sum(Cardinality(city_in_address) + Cardinality(valid_states), 2 * Len(df))

calculate_timeliness_score(df) == {One}

NumericFields ==
  <<"total_receipts", "latitude", "longitude", "population_1_mile", "square_footage">>

\* len(clean_values) > 10
OutlierMinCount == 10

\* pd.to_numeric(errors='coerce') of a cell: a number, or nan for anything else
ToNumeric(v) == IF v.kind = "num" THEN [nan |-> FALSE, num |-> v.num] ELSE [nan |-> TRUE, num |-> 0]

\* the j-th smallest (from 1) of the numbers at the places in idx
Kth(df, f, idx, j) ==
  CHOOSE x \in {df[i][f].num : i \in idx} :
    /\ Cardinality({i \in idx : df[i][f].num < x}) < j
    /\ Cardinality({i \in idx : df[i][f].num <= x}) >= j

\* four times quantile(n / 4) with linear interpolation between the two
\* nearest of the m sorted values
Quantile4(df, f, idx, n) ==
  LET m == Cardinality(idx)
      lo == (n * (m - 1)) \div 4
      part == (n * (m - 1)) % 4
      below == Kth(df, f, idx, lo + 1)
      above == IF part = 0 THEN below ELSE Kth(df, f, idx, lo + 2)
  IN 4 * below + part * (above - below)

\* slip: ten values are enough for a field to be looked at
FieldOutliers_ten(df, f) ==
  LET idx == {i \in 1..Len(df) : ~ToNumeric(df[i][f]).nan}
  IN IF f \notin Columns \/ Cardinality(idx) < OutlierMinCount THEN {}
     ELSE LET Q1 == Quantile4(df, f, idx, 1)
              Q3 == Quantile4(df, f, idx, 3)
              IQR == Q3 - Q1
          IN {i \in idx : 8 * df[i][f].num < 2 * Q1 - 3 * IQR
                            \/ 8 * df[i][f].num > 2 * Q3 + 3 * IQR}

\* the rows whose value of f is below Q1 - 1.5 * IQR or above Q3 + 1.5 * IQR
\* (Q1, Q3 and IQR are held four times, the bounds eight times)
FieldOutliers(df, f) ==
  LET idx == {i \in 1..Len(df) : ~ToNumeric(df[i][f]).nan}
  IN IF f \notin Columns \/ Cardinality(idx) <= OutlierMinCount THEN {}
     ELSE LET Q1 == Quantile4(df, f, idx, 1)
              Q3 == Quantile4(df, f, idx, 3)
              IQR == Q3 - Q1
          IN {i \in idx : 8 * df[i][f].num < 2 * Q1 - 3 * IQR
                            \/ 8 * df[i][f].num > 2 * Q3 + 3 * IQR}

\* list(set(ids)): the ids of the flagged rows, each once
detect_outliers(df) ==
  UNION {{RecordId(df, i) : i \in FieldOutliers(df, NumericFields[n])} :
           n \in 1..Len(NumericFields)}

DuplicateKey(row) == <<row.location_name, row.location_address, row.location_city>>

\* slip: keep='first', the first row of a group is not marked
detect_duplicates_later(df) ==
  {RecordId(df, i) : i \in {j \in 1..Len(df) :
      \E k \in 1..(j - 1) : DuplicateKey(df[k]) = DuplicateKey(df[j])}}

\* df.duplicated(subset=[name, address, city], keep=False)
detect_duplicates(df) ==
  {RecordId(df, i) : i \in {j \in 1..Len(df) :
      \E k \in 1..Len(df) : k # j /\ DuplicateKey(df[k]) = DuplicateKey(df[j])}}

\* the columns of row i that are null
MissingFields(df, i) == {f \in Columns : IsNull(df[i][f])}

\* the rows with more than one null cell, grouped by the set of their null
\* columns (the key joins the sorted names), each group in row order
analyze_missing_data_patterns(df) ==
  LET many == {i \in 1..Len(df) : Cardinality(MissingFields(df, i)) > 1}
      ids == [i \in 1..Len(df) |-> RecordId(df, i)]
  IN [k \in {MissingFields(df, i) : i \in many} |->
        LET mine == SelectSeq([i \in 1..Len(df) |-> i],
                              LAMBDA i : i \in many /\ MissingFields(df, i) = k)
        IN [n \in 1..Len(mine) |-> ids[mine[n]]]]

\* the keys of a dict of counts in the order they were first met
RECURSIVE FirstMet(_, _)
FirstMet(keys, seen) ==
  IF keys = <<>> THEN <<>>
  ELSE IF keys[1] \in seen THEN FirstMet(Tail(keys), seen)
  ELSE <<keys[1]>> \o FirstMet(Tail(keys), seen \cup {keys[1]})

\* a dict of counts: its keys in insertion order, and the count of each
CountsBy(results, Key(_)) ==
  LET keys == [i \in 1..Len(results) |-> Key(results[i])]
  IN [order |-> FirstMet(keys, {}),
      count |-> [k \in {keys[i] : i \in 1..Len(keys)} |->
                   Cardinality({i \in 1..Len(keys) : keys[i] = k})]]

QualityReport(total_records, validation_results, quality_score, completeness_score, accuracy_score, consistency_score, timeliness_score, outlier_records, duplicate_records, missing_data_patterns) ==
  LET invalid == SelectSeq(validation_results, LAMBDA r : ~r.is_valid)
  IN [total_records |-> total_records, validation_results |-> validation_results,
      quality_score |-> quality_score, completeness_score |-> completeness_score,
      accuracy_score |-> accuracy_score, consistency_score |-> consistency_score,
      timeliness_score |-> timeliness_score,
      errors_by_field |->
        CountsBy(SelectSeq(invalid, LAMBDA r : r.severity = "error"), LAMBDA r : r.field),
      warnings_by_field |->
        CountsBy(SelectSeq(invalid, LAMBDA r : r.severity # "error"), LAMBDA r : r.field),
      errors_by_type |-> CountsBy(invalid, LAMBDA r : <<r.severity, "_", r.rule_name>>),
      outlier_records |-> outlier_records, duplicate_records |-> duplicate_records,
      missing_data_patterns |-> missing_data_patterns]

\* the reports analyze_dataset_quality can build for a dataset: one, or more
\* where a score is half way between two thousandths
Reports(rules, df) ==
  LET all_results == ValidateRows(rules, df, 1)
      outliers == detect_outliers(df)
      duplicates == detect_duplicates(df)
      patterns == analyze_missing_data_patterns(df)
  IN {QualityReport(Len(df), all_results, q, c, a, s, t, outliers, duplicates, patterns) :
        q \in calculate_overall_quality_score(rules, all_results, Len(df)),
        c \in calculate_completeness_score(df),
        a \in calculate_accuracy_score(all_results),
        s \in calculate_consistency_score(df),
        t \in calculate_timeliness_score(df)}

LowQuality == <<"Overall data quality is low. Consider reviewing data collection processes.">>
LowCompleteness == <<"Data completeness is below 80%. Focus on collecting missing key fields.">>
LowAccuracy == <<"Data accuracy issues detected. Review validation rules and data sources.">>
HighErrorRate(field) ==
  <<"High error rate in field '", field, "'. Consider data cleansing or source review.">>
ManyOutliers ==
  <<"High number of outlier records detected. Consider outlier removal or investigation.">>
MissingPatterns ==
  <<"Missing data patterns detected. Consider improving data collection for affected fields.">>
QualityIsGood ==
  <<"Data quality is good. Continue current data collection and validation processes.">>

\* slip: the positive entry is added whatever was found
generate_recommendations_always(report) == <<QualityIsGood>>

\* the thresholds in the order of the code; x > n * 0.1 is 10 * x > n and
\* x > n * 0.05 is 20 * x > n
generate_recommendations(report) ==
  LET fields == report.errors_by_field.order
      recommendations ==
        (IF report.quality_score < 700 THEN <<LowQuality>> ELSE <<>>)
        \o (IF report.completeness_score < 800 THEN <<LowCompleteness>> ELSE <<>>)
        \o (IF report.accuracy_score < 900 THEN <<LowAccuracy>> ELSE <<>>)
        \o [n \in 1..Len(SelectSeq(fields, LAMBDA f :
                    10 * report.errors_by_field.count[f] > report.total_records)) |->
              HighErrorRate(SelectSeq(fields, LAMBDA f :
                    10 * report.errors_by_field.count[f] > report.total_records)[n])]
        \o (IF 20 * Cardinality(report.outlier_records) > report.total_records
            THEN <<ManyOutliers>> ELSE <<>>)
        \o (IF DOMAIN report.missing_data_patterns # {} THEN <<MissingPatterns>> ELSE <<>>)
  IN IF recommendations = <<>> THEN <<QualityIsGood>> ELSE recommendations

NoReport == [total_records |-> 0]

\* a DataQualityAnalyzer with its ValidationEngine, inside a ValidationReporter
\* rules: the rules of the engine when the dataset was analyzed (not a field of the code)
NewAnalyzer ==
  [phase |-> "ready", df |-> <<>>, rules |-> <<>>, report |-> NoReport,
   recommendations |-> <<>>]

\* ---- actions ---------------------------------------------------------------
Init ==
  /\ restaurants = StoredIds
  /\ enabled = Tasks
  /\ rows = [r \in RestaurantIds |-> [t \in Tasks |-> <<>>]]
  /\ jobs = <<>>
  /\ calls = [c \in Slots |-> IdleCall]
  /\ batch = [phase |-> "idle", ids |-> <<>>, results |-> <<>>]
  /\ pipeline = IdlePipeline
  /\ engine = NoEngine
  /\ analyzer = NoAnalyzer

Quiet == batch.phase = "idle" /\ \A c \in Slots : calls[c].pc = "idle"

\* cli enrich: a --skip-* flag switches a task off before the pipeline runs
SkipTask(t) ==
  /\ Quiet
  /\ t \in enabled
  /\ enabled' = enabled \ {t}
  /\ UNCHANGED <<analyzer, pipeline, engine, restaurants, rows, jobs, calls, batch>>

create_enrichment_job_for_restaurant(rid, job_type) ==
  /\ Len(jobs) < MaxJobs
  /\ jobs' = Append(jobs, EnrichmentJob(rid, job_type))
  /\ UNCHANGED <<analyzer, pipeline, engine, restaurants, enabled, rows, calls, batch>>

\* a call of its own, outside a batch
enrich_single_restaurant(rid) ==
  /\ Quiet
  /\ calls' = [calls EXCEPT ![1] = EnrichEntry([IdleCall EXCEPT !.kind = "enrich", !.rid = rid])]
  /\ UNCHANGED <<analyzer, pipeline, engine, restaurants, enabled, rows, jobs, batch>>

\* enrich_restaurants_batch up to its await: one coroutine per id, in order
enrich_restaurants_batch(ids) ==
  /\ Quiet
  /\ Len(ids) <= MaxCalls
  /\ calls' = [c \in Slots |->
                 IF c <= Len(ids)
                 THEN [IdleCall EXCEPT !.kind = "enrich", !.rid = ids[c],
                                       !.member = c, !.pc = "created"]
                 ELSE IdleCall]
  /\ batch' = [phase |-> "gathering", ids |-> ids, results |-> <<>>]
  /\ UNCHANGED <<analyzer, pipeline, engine, restaurants, enabled, rows, jobs>>

\* the event loop starts the coroutines of the gather in the order they were made
MemberStart(c) ==
  /\ batch.phase = "gathering"
  /\ calls[c].pc = "created"
  /\ \A d \in 1..(c - 1) : calls[d].pc # "created"
  /\ calls' = [calls EXCEPT ![c] = EnrichEntry(calls[c])]
  /\ UNCHANGED <<analyzer, pipeline, engine, restaurants, enabled, rows, jobs, batch>>

\* the lookup of the entity raises in the coroutine the event loop starts next
LookupRaises(c, exc) ==
  /\ batch.phase = "gathering"
  /\ calls[c].pc = "created"
  /\ \A d \in 1..(c - 1) : calls[d].pc # "created"
  /\ calls' = [calls EXCEPT ![c] = UnexpectedError(calls[c], exc)]
  /\ UNCHANGED <<analyzer, pipeline, engine, restaurants, enabled, rows, jobs, batch>>

\* the coroutine the event loop starts next ends with an exception that no
\* handler of enrich_single_restaurant covers: it is raised ahead of the try
MemberCrash(c, exc) ==
  /\ batch.phase = "gathering"
  /\ calls[c].pc = "created"
  /\ \A d \in 1..(c - 1) : calls[d].pc # "created"
  /\ calls' = [calls EXCEPT ![c] = [@ EXCEPT !.pc = "raised", !.exc = exc]]
  /\ UNCHANGED <<analyzer, pipeline, engine, restaurants, enabled, rows, jobs, batch>>

\* the gather is complete: enrich_restaurants_batch returns final_results
BatchReturn ==
  /\ batch.phase = "gathering"
  /\ GatherDone
  /\ batch' = [batch EXCEPT !.phase = "done", !.results = GatherResults(calls, batch.ids)]
  /\ calls' = [c \in Slots |-> IdleCall]
  /\ UNCHANGED <<analyzer, pipeline, engine, restaurants, enabled, rows, jobs>>

BatchRelease ==
  /\ batch.phase = "done"
  /\ batch' = [phase |-> "idle", ids |-> <<>>, results |-> <<>>]
  /\ UNCHANGED <<analyzer, pipeline, engine, restaurants, enabled, rows, jobs, calls>>

process_enrichment_job(c, job_id) ==
  /\ batch.phase = "idle"
  /\ calls[c].pc = "idle"
  /\ \A d \in 1..(c - 1) : calls[d].pc # "idle"
  /\ IF job_id \notin DOMAIN jobs
     THEN /\ calls' = [calls EXCEPT ![c] = JobNotFound(job_id)]
          /\ jobs' = jobs
     ELSE LET job == jobs[job_id]
              call == JobDispatch([IdleCall EXCEPT !.kind = "job", !.job_id = job_id,
                                                   !.rid = job.restaurant_id], job)
          IN /\ calls' = [calls EXCEPT ![c] = AfterEnrich(call)]
             /\ jobs' = JobsAfter(MarkRunning(jobs, job_id), call)
  /\ UNCHANGED <<analyzer, pipeline, engine, restaurants, enabled, rows, batch>>

\* the awaited task of call c comes back with out; ok: the store_* call works
TaskReturn(c, out, ok) ==
  LET call == calls[c]
      t == call.pc
  IN /\ call.pc \in Tasks
     /\ out \in Outcomes(t)
     /\ (~PersistCalled(t, out)) => ok
     /\ LET after == AfterTask(call, t, out)
        IN /\ calls' = [calls EXCEPT ![c] = AfterEnrich(after)]
           /\ jobs' = JobsAfter(jobs, after)
     /\ rows' = IF PersistCalled(t, out)
                THEN store_task_result(rows, call.rid, t, out.value, ok)
                ELSE rows
     /\ UNCHANGED <<analyzer, pipeline, engine, restaurants, enabled, batch>>

\* the caller takes the result of a finished call
Release(c) ==
  /\ calls[c].pc = "done"
  /\ calls[c].member = 0
  /\ calls' = [calls EXCEPT ![c] = IdleCall]
  /\ UNCHANGED <<analyzer, pipeline, engine, restaurants, enabled, rows, jobs, batch>>

BatchIds == UNION {[1..n -> RestaurantIds] : n \in 1..MaxCalls}

\* run_full_enrichment_pipeline up to its first await: the ids are loaded and
\* the coroutines of the first batch are made, or the store is empty
run_full_enrichment_pipeline(limit) ==
  /\ batch.phase = "idle"
  /\ \A c \in DOMAIN calls : calls[c].pc = "idle"
  /\ pipeline.phase = "idle"
  /\ LET ids == get_restaurants_dataframe(limit)
         first == Partition(ids, 0)
     IN IF ids = <<>>
        THEN /\ pipeline' = [IdlePipeline EXCEPT !.phase = "done", !.limit = limit]
             /\ UNCHANGED <<calls, batch>>
        ELSE /\ pipeline' = [IdlePipeline EXCEPT !.phase = "running", !.limit = limit,
                                                !.restaurant_ids = ids, !.enriched = first]
             /\ calls' = BatchCalls(first)
             /\ batch' = [phase |-> "gathering", ids |-> first, results |-> <<>>]
  /\ UNCHANGED <<analyzer, engine, restaurants, enabled, rows, jobs>>

\* the gather of the batch is complete: its results are added, then the next
\* batch is made or the statistics are computed and the pipeline returns
PipelineStep ==
  /\ pipeline.phase = "running"
  /\ batch.phase = "gathering"
  /\ GatherDone
  /\ LET all == Extend(pipeline.all_results, GatherResults(calls, batch.ids))
         ids == pipeline.restaurant_ids
         i == pipeline.i + batch_size
         next == Partition(ids, i)
     IN IF i < Len(ids)
        THEN /\ pipeline' = [pipeline EXCEPT !.all_results = all, !.i = i,
                                             !.enriched = @ \o next]
             /\ calls' = BatchCalls(next)
             /\ batch' = [phase |-> "gathering", ids |-> next, results |-> <<>>]
        ELSE /\ pipeline' = [pipeline EXCEPT !.phase = "done", !.all_results = all, !.i = i,
                                             !.stats = ComputeStats(ids, all)]
             /\ calls' = [c \in PipelineSlots |-> IdleCall]
             /\ batch' = [phase |-> "idle", ids |-> <<>>, results |-> <<>>]
  /\ UNCHANGED <<analyzer, engine, restaurants, enabled, rows, jobs>>

add_validation_rule(rule) ==
  /\ engine.phase = "ready"
  /\ Len(engine.validation_rules) < Len(DefaultRules) + MaxAddedRules
  /\ engine' = [engine EXCEPT !.validation_rules = Append(@, rule)]
  /\ UNCHANGED <<analyzer, pipeline, restaurants, enabled, rows, jobs, calls, batch>>

validate_record(record) ==
  /\ engine.phase = "ready"
  /\ engine' = [engine EXCEPT !.phase = "validated", !.record = record,
                              !.results = ApplyRulesFrom(engine.validation_rules, record, 1)]
  /\ UNCHANGED <<analyzer, pipeline, restaurants, enabled, rows, jobs, calls, batch>>

\* the caller has taken the results
TakeResults ==
  /\ engine.phase = "validated"
  /\ engine' = [engine EXCEPT !.phase = "ready", !.record = NoRecord, !.results = <<>>]
  /\ UNCHANGED <<analyzer, pipeline, restaurants, enabled, rows, jobs, calls, batch>>

\* analyze_dataset_quality: every row is validated, then the report is built
analyze_dataset_quality(df) ==
  /\ analyzer.phase = "ready"
  /\ engine.phase = "ready"
  /\ \E report \in Reports(engine.validation_rules, df) :
       analyzer' = [analyzer EXCEPT !.phase = "analyzed", !.df = df,
                                    !.rules = engine.validation_rules, !.report = report]
  /\ UNCHANGED <<pipeline, engine, restaurants, enabled, rows, jobs, calls, batch>>

\* the reporter turns the report of the analyzer into recommendations
ReporterRecommends ==
  /\ analyzer.phase = "analyzed"
  /\ analyzer' = [analyzer EXCEPT !.phase = "reported",
                                  !.recommendations = generate_recommendations(analyzer.report)]
  /\ UNCHANGED <<pipeline, engine, restaurants, enabled, rows, jobs, calls, batch>>

\* the caller has taken the report
TakeReport ==
  /\ analyzer.phase = "reported"
  /\ analyzer' = NewAnalyzer
  /\ UNCHANGED <<pipeline, engine, restaurants, enabled, rows, jobs, calls, batch>>

\* ---- specifications ---------------------------------------------------------
\* the job lifecycle: jobs are made and processed, up to MaxJobCalls calls at a time
Next ==
  \/ \E in \in JobInputs : create_enrichment_job_for_restaurant(in[1], in[2])
  \/ \E c \in 1..MaxJobCalls, job_id \in 0..MaxJobs : process_enrichment_job(c, job_id)
  \/ \E c \in Slots, out \in JobOutcomes : TaskReturn(c, out, TRUE)
  \/ \E c \in Slots : Release(c)

Spec == Init /\ [][Next]_vars

\* enrichment of entities, alone and in batches of up to MaxCalls
NextEnrich ==
  \/ \E t \in Tasks : SkipTask(t)
  \/ \E rid \in RestaurantIds : enrich_single_restaurant(rid)
  \/ \E ids \in BatchIds : enrich_restaurants_batch(ids)
  \/ \E c \in Slots : MemberStart(c)
  \/ \E c \in Slots, out \in AllOutcomes, ok \in BOOLEAN : TaskReturn(c, out, ok)
  \/ \E c \in Slots : Release(c)
  \/ BatchReturn
  \/ BatchRelease

SpecEnrich == Init /\ [][NextEnrich]_vars

\* batches whose coroutines may hit a failing lookup or end with an exception
NextBatch ==
  \/ \E rid \in RestaurantIds : enrich_single_restaurant(rid)
  \/ \E ids \in BatchIds : enrich_restaurants_batch(ids)
  \/ \E c \in Slots : MemberStart(c)
  \/ \E c \in Slots, exc \in ExcTexts : LookupRaises(c, exc)
  \/ \E c \in Slots, exc \in ExcTexts : MemberCrash(c, exc)
  \/ \E c \in Slots, out \in JobOutcomes : TaskReturn(c, out, TRUE)
  \/ \E c \in Slots : Release(c)
  \/ BatchReturn
  \/ BatchRelease

SpecBatch == Init /\ [][NextBatch]_vars

\* one run of the pipeline over a store of none, one or three entities
InitPipeline ==
  /\ restaurants \in Stores
  /\ enabled = Tasks
  /\ rows = [r \in TableIds |-> [t \in Tasks |-> <<>>]]
  /\ jobs = <<>>
  /\ calls = [c \in PipelineSlots |-> IdleCall]
  /\ batch = [phase |-> "idle", ids |-> <<>>, results |-> <<>>]
  /\ pipeline = IdlePipeline
  /\ engine = NoEngine
  /\ analyzer = NoAnalyzer

NextPipeline ==
  \/ \E limit \in Limits : run_full_enrichment_pipeline(limit)
  \/ \E c \in PipelineSlots : MemberStart(c)
  \/ \E c \in PipelineSlots, exc \in CrashTexts : MemberCrash(c, exc)
  \/ \E c \in PipelineSlots, out \in AllOutcomes : TaskReturn(c, out, TRUE)
  \/ PipelineStep

SpecPipeline == InitPipeline /\ [][NextPipeline]_vars

\* the validation engine: rules are added, records are validated
NextValidate ==
  \/ \E rule \in AddableRules : add_validation_rule(rule)
  \/ \E record \in Records : validate_record(record)
  \/ TakeResults

\* a ValidationEngine is made next to an orchestrator that stays idle
InitValidate ==
  /\ restaurants = StoredIds
  /\ enabled = Tasks
  /\ rows = [r \in RestaurantIds |-> [t \in Tasks |-> <<>>]]
  /\ jobs = <<>>
  /\ calls = [c \in Slots |-> IdleCall]
  /\ batch = [phase |-> "idle", ids |-> <<>>, results |-> <<>>]
  /\ pipeline = IdlePipeline
  /\ engine = NewEngine
  /\ analyzer = NoAnalyzer

SpecValidate == InitValidate /\ [][NextValidate]_vars

\* what an earlier run of the pipeline left in the three result tables
EarlierRows ==
  [t \in Tasks |->
     CASE t = "concept_classification" -> <<35>>
       [] t = "population_analysis" -> <<1>>
       [] OTHER -> <<900>>]

\* the result tables are empty, or hold the rows of an earlier run for r1
InitStore ==
  /\ restaurants = StoredIds
  /\ enabled = Tasks
  /\ rows \in {[r \in RestaurantIds |-> [t \in Tasks |-> <<>>]],
               [r \in RestaurantIds |-> IF r = "r1" THEN EarlierRows
                                        ELSE [t \in Tasks |-> <<>>]]}
  /\ jobs = <<>>
  /\ calls = [c \in Slots |-> IdleCall]
  /\ batch = [phase |-> "idle", ids |-> <<>>, results |-> <<>>]
  /\ pipeline = IdlePipeline
  /\ engine = NoEngine
  /\ analyzer = NoAnalyzer

\* repeated runs and batches with repeated ids over a store that may fail
NextStore ==
  \/ \E rid \in RestaurantIds : enrich_single_restaurant(rid)
  \/ \E ids \in BatchIds : enrich_restaurants_batch(ids)
  \/ \E c \in Slots : MemberStart(c)
  \/ \E c \in Slots, out \in AllOutcomes, ok \in BOOLEAN : TaskReturn(c, out, ok)
  \/ \E c \in Slots : Release(c)
  \/ BatchReturn
  \/ BatchRelease

SpecStore == InitStore /\ [][NextStore]_vars

\* two callers: a second process_enrichment_job may start while the first is
\* suspended at an await
Callers == 1..2

NextRace ==
  \/ create_enrichment_job_for_restaurant("r1", "full_enrichment")
  \/ \E c \in Callers, job_id \in 1..MaxJobs : process_enrichment_job(c, job_id)
  \/ \E c \in Callers, out \in JobOutcomes : TaskReturn(c, out, TRUE)
  \/ \E c \in Callers : Release(c)

SpecRace == Init /\ [][NextRace]_vars

\* a reporter with its analyzer and engine, next to an orchestrator that stays idle
InitQuality ==
  /\ restaurants = StoredIds
  /\ enabled = Tasks
  /\ rows = [r \in RestaurantIds |-> [t \in Tasks |-> <<>>]]
  /\ jobs = <<>>
  /\ calls = [c \in Slots |-> IdleCall]
  /\ batch = [phase |-> "idle", ids |-> <<>>, results |-> <<>>]
  /\ pipeline = IdlePipeline
  /\ engine = NewEngine
  /\ analyzer = NewAnalyzer

\* rules are added to the engine of the analyzer, datasets are analyzed
NextQuality ==
  \/ \E rule \in AddableRules : add_validation_rule(rule)
  \/ \E df \in Datasets : analyze_dataset_quality(df)
  \/ ReporterRecommends
  \/ TakeReport

SpecQuality == InitQuality /\ [][NextQuality]_vars

\* ---- properties ------------------------------------------------------------
Terminal == {"completed", "failed"}

StartsWith(text, prefix) ==
  /\ Len(text) >= Len(prefix)
  /\ \A i \in 1..Len(prefix) : text[i] = prefix[i]

\* this step is the entry of a process_enrichment_job call on job id j in slot c
JobCallStarts(c, j) ==
  calls[c].pc = "idle" /\ calls'[c].kind = "job" /\ calls'[c].job_id = j

\* this step is the return of a process_enrichment_job call on job id j in slot c
JobCallReturns(c, j) ==
  calls[c].pc # "done" /\ calls'[c].kind = "job" /\ calls'[c].job_id = j /\ calls'[c].pc = "done"

\* C1: the status of a job only moves forward, pending -> running -> completed or
\* failed: no step changes the status of a job that is completed or failed, and a
\* running job never becomes pending again.
C1_StatusMonotonic ==
  [][\A j \in DOMAIN jobs :
       /\ jobs[j].status \in Terminal => jobs'[j].status = jobs[j].status
       /\ jobs[j].status = "running" => jobs'[j].status # "pending"]_vars

\* C2: a job is created pending; a process_enrichment_job call on an existing job
\* stamps its start and leaves it running while the call is suspended, the job is
\* completed or failed at the step the call returns, and a job that has left
\* pending is never pending again.
C2_JobLifecycle ==
  [][/\ Len(jobs') > Len(jobs) => jobs'[Len(jobs')].status = "pending"
     /\ \A j \in DOMAIN jobs :
          /\ jobs[j].status # "pending" => jobs'[j].status # "pending"
          /\ \A c \in Slots :
               /\ JobCallStarts(c, j) =>
                    /\ jobs'[j].started_at = NOW
                    /\ calls'[c].pc # "done" => jobs'[j].status = "running"
               /\ JobCallReturns(c, j) => jobs'[j].status \in Terminal]_vars

\* a call on an existing job ran its three tasks and has returned; the job is completed
C2_Witness ==
  \E c \in Slots :
    /\ calls[c].kind = "job" /\ calls[c].pc = "done" /\ Len(calls[c].trace) = 3
    /\ calls[c].job_id \in DOMAIN jobs
    /\ jobs[calls[c].job_id].status = "completed"

\* C3: at the return of process_enrichment_job on an existing job the stored
\* status is completed iff the enrichment result has success = true, else failed
\* with the error text "Enrichment failed: " + the errors joined by ";"; the
\* completion time is set either way; the returned boolean is true iff the
\* stored status is completed.
C3_ResultRecorded ==
  [][\A j \in DOMAIN jobs : \A c \in Slots :
       JobCallReturns(c, j) =>
         LET r == calls'[c].result
             job == jobs'[j]
         IN /\ job.status = "completed" <=> r.success
            /\ ~r.success =>
                 /\ job.status = "failed"
                 /\ job.error_message = <<"Enrichment failed", ":">> \o Join(r.errors)
            /\ job.completed_at # NULL
            /\ calls'[c].ret <=> job.status = "completed"]_vars

\* a call returned false for a job whose enrichment had two failing tasks
C3_Witness ==
  \E c \in Slots :
    /\ calls[c].kind = "job" /\ calls[c].pc = "done" /\ ~calls[c].ret
    /\ Len(calls[c].result.errors) = 2
    /\ calls[c].job_id \in DOMAIN jobs
    /\ jobs[calls[c].job_id].status = "failed"
    /\ jobs[calls[c].job_id].completed_at = NOW

\* C4: process_enrichment_job on a job that is completed or failed runs no
\* enrichment task and leaves the whole job record as it was.
C4_TerminalNotReprocessed ==
  [][\A j \in DOMAIN jobs : \A c \in Slots :
       (jobs[j].status \in Terminal /\ JobCallStarts(c, j)) =>
         /\ jobs'[j] = jobs[j]
         /\ calls'[c].trace = <<>>]_vars

\* C5: process_enrichment_job on a job id that is not in the store returns false
\* at once: no job record is made or changed, no task is invoked, nothing is
\* persisted.
C5_MissingJob ==
  [][\A c \in Slots : \A j \in 0..MaxJobs :
       (j \notin DOMAIN jobs /\ JobCallStarts(c, j)) =>
         /\ calls'[c].pc = "done"
         /\ ~calls'[c].ret
         /\ jobs' = jobs
         /\ rows' = rows
         /\ calls'[c].trace = <<>>
         /\ calls'[c].persisted = <<>>]_vars

\* a call on a missing job id has returned while the store holds another job
C5_Witness ==
  \E c \in Slots :
    /\ calls[c].kind = "job" /\ calls[c].pc = "done"
    /\ calls[c].job_id \notin DOMAIN jobs
    /\ jobs # <<>>

\* C6: process_enrichment_job on a job whose type is not full_enrichment ends at
\* once with the job failed; no task is invoked and nothing is persisted.
C6_UnsupportedJobType ==
  [][\A j \in DOMAIN jobs : \A c \in Slots :
       (jobs[j].job_type # "full_enrichment" /\ JobCallStarts(c, j)) =>
         /\ calls'[c].pc = "done"
         /\ jobs'[j].status = "failed"
         /\ calls'[c].trace = <<>>
         /\ calls'[c].persisted = <<>>
         /\ rows' = rows]_vars

\* a call on a square_footage job has returned and the job is failed for its type
C6_Witness ==
  \E c \in Slots :
    /\ calls[c].kind = "job" /\ calls[c].pc = "done"
    /\ calls[c].job_id \in DOMAIN jobs
    /\ jobs[calls[c].job_id].job_type = "square_footage"
    /\ jobs[calls[c].job_id].status = "failed"
    /\ jobs[calls[c].job_id].error_message =
         <<"Enrichment failed", ":", "Unsupported job type", ":", "square_footage">>

\* C7: enrich_single_restaurant on an id that is not in the store returns
\* success = false, exactly one error and that error starts with "NotFound:", an
\* empty data_collected, and has invoked no task and persisted nothing.
C7_NotFound ==
  \A c \in Slots :
    (calls[c].kind = "enrich" /\ calls[c].pc = "done" /\ calls[c].rid \notin restaurants) =>
      /\ ~calls[c].result.success
      /\ Len(calls[c].result.errors) = 1
      /\ StartsWith(calls[c].result.errors[1], <<"NotFound", ":">>)
      /\ calls[c].result.data_collected = {}
      /\ calls[c].trace = <<>>
      /\ calls[c].persisted = <<>>

\* the enabled tasks in the order of the code
EnabledOrder == SelectSeq(TaskOrder, LAMBDA t : t \in enabled)

IsPrefix(a, b) == Len(a) <= Len(b) /\ \A i \in 1..Len(a) : a[i] = b[i]

\* a call of enrich_single_restaurant that found its entity
Enriching(c) ==
  calls[c].kind = "enrich" /\ calls[c].pc \in Tasks \cup {"done"}
    /\ calls[c].rid \in restaurants

\* C8: task isolation. A call on an existing entity invokes the enabled tasks in
\* order, each once, and has invoked exactly the enabled ones when it returns,
\* whatever raised; every task that raised has left exactly one error that
\* carries its name and there are no other errors; every task that came back
\* with an acceptable result has had the store called for this entity with it;
\* and such a store call changes nothing but the row of that entity and task.
C8_Inv ==
  \A c \in Slots :
    Enriching(c) =>
      LET call == calls[c]
      IN /\ IsPrefix(call.trace, EnabledOrder)
         /\ call.pc = "done" => call.trace = EnabledOrder
         /\ Len(call.errors) = Count(call.got, LAMBDA e : e.raised)
         /\ \A i \in 1..Len(call.got) :
              LET e == call.got[i]
              IN /\ e.raised =>
                      Count(call.errors, LAMBDA m : m[1] = FailPrefix[e.task]) = 1
                 /\ (~e.raised /\ Accepted(e.task, e.value)) =>
                      Count(call.persisted,
                            LAMBDA w : w = [task |-> e.task, rid |-> call.rid,
                                            value |-> e.value]) = 1
         /\ call.pc = "done" => call.result.errors = call.errors

C8_Step ==
  \A c \in Slots :
    (Enriching(c) /\ Len(calls'[c].persisted) > Len(calls[c].persisted)) =>
      LET w == calls'[c].persisted[Len(calls'[c].persisted)]
      IN rows' \in {rows, [rows EXCEPT ![calls[c].rid][w.task] = <<w.value>>]}

C8_TaskIsolation == []C8_Inv /\ [][C8_Step]_vars

\* a member of a batch of two has returned: its first task raised, a later one
\* was accepted and is in the store
C8_Witness ==
  /\ batch.phase = "gathering" /\ Len(batch.ids) = 2
  /\ \E c \in Slots :
       /\ Enriching(c) /\ calls[c].pc = "done" /\ calls[c].member > 0
       /\ Len(calls[c].got) = 3 /\ calls[c].got[1].raised
       /\ \E i \in 2..3 :
            /\ ~calls[c].got[i].raised
            /\ calls[c].got[i].task \in calls[c].result.data_collected
            /\ rows[calls[c].rid][calls[c].got[i].task] = <<calls[c].got[i].value>>

\* C9: the tasks of one call run one after another in the order classification,
\* population analysis, square footage: at most one is in flight, it is the one
\* the call awaits, and every task invoked before it has been handled.
C9_Sequential ==
  \A c \in Slots :
    LET call == calls[c]
    IN /\ Cardinality(call.inflight) <= 1
       /\ call.inflight = IF call.pc \in Tasks THEN {call.pc} ELSE {}
       /\ \A i, j \in 1..Len(call.trace) :
            i < j => TaskIndex(call.trace[i]) < TaskIndex(call.trace[j])
       /\ Len(call.trace) = Len(call.got) + Cardinality(call.inflight)
       /\ \A i \in 1..Len(call.got) : call.got[i].task = call.trace[i]

\* two members of a batch are suspended at the same time, one of them in its
\* second task or later
C9_Witness ==
  \E c, d \in Slots :
    /\ c # d /\ calls[c].member > 0 /\ calls[d].member > 0
    /\ calls[c].pc \in Tasks /\ calls[d].pc \in Tasks
    /\ Len(calls[c].trace) >= 2

Below(t, value) ==
  IF t = "concept_classification" THEN value < ConfidenceThreshold ELSE value = 0

Above(t, value) ==
  IF t = "concept_classification" THEN value > ConfidenceThreshold ELSE value # 0

\* C10: for a task that came back without raising: below the threshold it leaves
\* one warning, no store call and no entry in data_collected; above the threshold
\* the store was called with its result and data_collected holds the task. The
\* warnings are exactly those, and the returned result carries both.
C10_Threshold ==
  \A c \in Slots :
    Enriching(c) =>
      LET call == calls[c]
      IN /\ \A i \in 1..Len(call.got) :
              LET e == call.got[i]
              IN ~e.raised =>
                   /\ Below(e.task, e.value) =>
                        /\ e.task \notin call.data_collected
                        /\ \A k \in 1..Len(call.persisted) : call.persisted[k].task # e.task
                        /\ Count(call.warnings, LAMBDA m : m = LowMsg(e.task, e.value)) = 1
                   /\ Above(e.task, e.value) =>
                        /\ e.task \in call.data_collected
                        /\ \E k \in 1..Len(call.persisted) :
                             call.persisted[k] = [task |-> e.task, rid |-> call.rid,
                                                  value |-> e.value]
         /\ Len(call.warnings) =
              Count(call.got, LAMBDA e : ~e.raised /\ Below(e.task, e.value))
         /\ call.pc = "done" =>
              /\ call.result.data_collected = call.data_collected
              /\ call.result.warnings = call.warnings

\* a call has returned with one task below and one above the threshold
C10_Witness ==
  \E c \in Slots :
    /\ Enriching(c) /\ calls[c].pc = "done"
    /\ \E i, j \in 1..Len(calls[c].got) :
         /\ ~calls[c].got[i].raised /\ Below(calls[c].got[i].task, calls[c].got[i].value)
         /\ ~calls[c].got[j].raised /\ Above(calls[c].got[j].task, calls[c].got[j].value)
         /\ calls[c].result.data_collected = {calls[c].got[j].task}

SuccessIffNoErrors(r) == r.success <=> r.errors = <<>>

\* C11: every result a call of enrich_single_restaurant returns and every entry
\* of the list enrich_restaurants_batch returns has success = true iff its
\* errors are empty, whatever the path: entity missing, tasks raising or not,
\* failing lookup, crashed coroutine; a call that persisted the result of one
\* task while another task raised returns success = false.
C11_SuccessIffNoErrors ==
  /\ \A c \in Slots :
       (calls[c].kind = "enrich" /\ calls[c].pc = "done") =>
         /\ SuccessIffNoErrors(calls[c].result)
         /\ (calls[c].persisted # <<>> /\ \E i \in 1..Len(calls[c].got) : calls[c].got[i].raised)
              => ~calls[c].result.success
  /\ batch.phase = "done" =>
       \A i \in 1..Len(batch.results) : SuccessIffNoErrors(batch.results[i])

\* a batch has returned a crashed entry next to one with data collected and an error
C11_Witness ==
  /\ batch.phase = "done"
  /\ \E i, j \in 1..Len(batch.results) :
       /\ batch.results[i].errors # <<>>
       /\ StartsWith(batch.results[i].errors[1], <<"Exception", ":">>)
       /\ batch.results[j].data_collected # {}
       /\ batch.results[j].errors # <<>>
       /\ ~batch.results[j].success

\* C12: the list enrich_restaurants_batch returns has one entry per input id, in
\* input order: its length is that of ids and its i-th entry carries ids[i],
\* whatever the order in which the coroutines ended.
C12_BatchOrder ==
  batch.phase = "done" =>
    /\ Len(batch.results) = Len(batch.ids)
    /\ \A i \in 1..Len(batch.ids) : batch.results[i].restaurant_id = batch.ids[i]

\* a batch of a stored and a missing id has returned, the stored one after three tasks
C12_Witness ==
  /\ batch.phase = "done"
  /\ batch.ids = <<"r1", "r9">>
  /\ batch.results[1].data_collected = Tasks
  /\ batch.results[2].errors = <<NotFoundMsg("r9")>>

\* what a call on a stored entity returns, from the outcomes of its own tasks only
OwnResultMatches(r, rid, got) ==
  /\ r.restaurant_id = rid
  /\ r.success <=> \A i \in 1..Len(got) : ~got[i].raised
  /\ Len(r.errors) = Count(got, LAMBDA e : e.raised)
  /\ r.data_collected = {got[i].task : i \in {k \in 1..Len(got) :
                                                ~got[k].raised /\ Accepted(got[k].task, got[k].value)}}

\* C13: a coroutine of the batch that ends with an exception becomes a failed
\* entry for its id (success = false, one error, nothing collected); the batch
\* returns all the same, and the entry of every other coroutine is the result
\* that coroutine returned, which for a stored entity is fixed by the outcomes of
\* its own tasks; no step of one coroutine changes another one.
C13_Inv ==
  \A i \in 1..Len(batch.ids) :
    /\ (batch.phase = "gathering" /\ calls[i].pc = "done" /\ calls[i].trace # <<>>) =>
         OwnResultMatches(calls[i].result, batch.ids[i], calls[i].got)
    /\ batch.phase = "done" => Len(batch.results) = Len(batch.ids)

C13_Step ==
  /\ \A c, d \in Slots :
       (batch.phase = "gathering" /\ batch'.phase = "gathering" /\ c # d
          /\ calls'[c] # calls[c]) => calls'[d] = calls[d]
  /\ (batch.phase = "gathering" /\ batch'.phase = "done") =>
       \A i \in 1..Len(batch.ids) :
         IF calls[i].pc = "raised"
         THEN /\ ~batch'.results[i].success
              /\ Len(batch'.results[i].errors) = 1
              /\ batch'.results[i].data_collected = {}
              /\ batch'.results[i].restaurant_id = batch.ids[i]
         ELSE batch'.results[i] = calls[i].result

C13_BatchItemCrash == []C13_Inv /\ [][C13_Step]_vars

\* a batch has returned: its first coroutine crashed, its second one ran three
\* tasks and collected all of them
C13_Witness ==
  /\ batch.phase = "done"
  /\ Len(batch.ids) = 2
  /\ batch.results[1].errors = <<CrashMsg(<<"timeout">>)>>
  /\ batch.results[2].success
  /\ batch.results[2].data_collected = Tasks

\* the calls of enrich_single_restaurant that are made and have not returned
InFlight == {c \in DOMAIN calls : calls[c].pc \in Tasks \cup {"created"}}

C14_Inv ==
  pipeline.phase = "running" =>
    LET ids == pipeline.restaurant_ids
        upto == Min(pipeline.i + batch_size, Len(ids))
    IN /\ Cardinality(InFlight) <= batch_size
       /\ pipeline.i % batch_size = 0
       /\ batch.ids = SubSeq(ids, pipeline.i + 1, upto)
       /\ pipeline.enriched = SubSeq(ids, 1, upto)
       /\ \A c \in InFlight : c <= Len(batch.ids) /\ calls[c].rid = batch.ids[c]

C14_Step ==
  (\E c \in DOMAIN calls : calls'[c].pc = "created" /\ calls[c].pc # "created") => InFlight = {}

\* C14: the pipeline works through the loaded ids in consecutive partitions of
\* at most batch_size ids: at most batch_size calls are in flight, they are the
\* calls of the current partition, and the calls of the next partition are made
\* only when no call of the current one is in flight any more.
C14_Partitions == []C14_Inv /\ [][C14_Step]_vars

\* the call of the second partition is in its tasks, the two of the first are back
C14_Witness ==
  /\ pipeline.phase = "running"
  /\ pipeline.i = batch_size
  /\ Len(pipeline.all_results) = batch_size
  /\ \E c \in InFlight : calls[c].pc \in Tasks /\ calls[c].rid = "r3"

\* C15: the statistics of a finished pipeline account for every loaded id once:
\* a coroutine was made once for each loaded id, there is one result per id,
\* successful + failed = total = the number of loaded ids, and the data source
\* count of a task is the number of results that collected it (no key for zero).
C15_StatsAccount ==
  pipeline.phase = "done" =>
    LET ids == pipeline.restaurant_ids
        res == pipeline.all_results
        st == pipeline.stats
    IN /\ pipeline.enriched = ids
       /\ Len(res) = Len(ids)
       /\ \A k \in 1..Len(ids) : res[k].restaurant_id = ids[k]
       /\ st.total_restaurants = Len(ids)
       /\ st.successful_enrichments + st.failed_enrichments = st.total_restaurants
       /\ st.successful_enrichments = Count(res, LAMBDA r : r.success)
       /\ \A t \in Tasks :
            LET n == Count(res, LAMBDA r : t \in r.data_collected)
            IN IF n = 0 THEN t \notin DOMAIN st.data_sources_used
               ELSE t \in DOMAIN st.data_sources_used /\ st.data_sources_used[t] = n

\* a pipeline over three entities is done with successes, failures, a task two
\* entities collected and a task none collected
C15_Witness ==
  /\ pipeline.phase = "done"
  /\ pipeline.stats.total_restaurants = 3
  /\ pipeline.stats.successful_enrichments >= 1
  /\ pipeline.stats.failed_enrichments >= 1
  /\ \E t \in DOMAIN pipeline.stats.data_sources_used : pipeline.stats.data_sources_used[t] = 2
  /\ DOMAIN pipeline.stats.data_sources_used # Tasks

\* C16: run_full_enrichment_pipeline(limit) with an integer limit >= 0 makes at
\* most limit calls of enrich_single_restaurant and reports total_restaurants =
\* min(limit, number of stored entities).
C16_Limit ==
  (pipeline.phase \in {"running", "done"} /\ pipeline.limit.given) =>
    /\ Len(pipeline.enriched) <= pipeline.limit.n
    /\ pipeline.phase = "done" =>
         pipeline.stats.total_restaurants = Min(pipeline.limit.n, Cardinality(restaurants))

Validated == engine.phase = "validated"

\* the results the k-th rule of the list left, and the rule a result comes from
ResultsOf(k) == SelectSeq(engine.results, LAMBDA r : r.rule_index = k)
RuleOf(r) == engine.validation_rules[r.rule_index]
RuleIndices == 1..Len(engine.validation_rules)

\* an enabled completeness rule with required = true
RequiredRule(rule) ==
  rule.enabled /\ rule.rule_type = "completeness" /\ rule.parameters.required

\* C17 as stated: for every rule set, a required field that is missing or empty
\* has exactly one completeness violation in the output of validate_record and
\* no result of a rule of another type.
C17_RequiredMissing ==
  Validated =>
    \A f \in Fields :
      (Missing(engine.record[f])
         /\ \E k \in RuleIndices : RequiredRule(engine.validation_rules[k])
                                      /\ engine.validation_rules[k].field = f) =>
        /\ Count(engine.results,
                 LAMBDA r : r.field = f /\ RuleOf(r).rule_type = "completeness") = 1
        /\ Count(engine.results,
                 LAMBDA r : r.field = f /\ RuleOf(r).rule_type # "completeness") = 0

\* C17 amended: for every rule set, a field that is missing or empty gets one
\* violation from each enabled completeness rule with required = true on that
\* field (so exactly one under the default rules), carrying the severity and
\* the description of that rule, and no result from any other rule.
C17_RequiredMissingPerRule ==
  Validated =>
    \A k \in RuleIndices :
      LET rule == engine.validation_rules[k]
          mine == ResultsOf(k)
      IN Missing(engine.record[rule.field]) =>
           IF RequiredRule(rule)
           THEN /\ Len(mine) = 1
                /\ ~mine[1].is_valid
                /\ mine[1].field = rule.field
                /\ mine[1].severity = rule.severity
                /\ mine[1].message = <<rule.description>>
           ELSE mine = <<>>

\* a record without receipts was validated under two required rules on that
\* field and a range rule: two violations for the field, both from completeness
C17_Witness ==
  /\ Validated
  /\ Len(engine.validation_rules) > Len(DefaultRules)
  /\ engine.record["total_receipts"] = None
  /\ Count(engine.results, LAMBDA r : r.field = "total_receipts") = 2
  /\ Count(engine.results, LAMBDA r : r.field = "total_receipts"
                                        /\ RuleOf(r).rule_type = "completeness") = 2

HasMessage(results, head) == \E i \in 1..Len(results) : results[i].message[1] = head

\* C18: an enabled range rule on a present value leaves at most one result: the
\* 'below minimum' one iff the value parses to a number under min, the 'above
\* maximum' one iff it parses to a number over max and not under min, the 'not
\* numeric' one iff it does not parse; total_receipts = -5 is below the minimum
\* and total_receipts = "abc" is not numeric.
C18_Range ==
  Validated =>
    /\ \A k \in RuleIndices :
         LET rule == engine.validation_rules[k]
             p == rule.parameters
             v == engine.record[rule.field]
             f == FloatOf(v)
             mine == ResultsOf(k)
             below == f.ok /\ p.has_min /\ f.num < p.min
         IN (rule.enabled /\ rule.rule_type = "range" /\ ~Missing(v)) =>
              /\ Len(mine) <= 1
              /\ HasMessage(mine, "Value below minimum") <=> below
              /\ HasMessage(mine, "Value above maximum") <=>
                   (f.ok /\ p.has_max /\ f.num > p.max /\ ~below)
              /\ HasMessage(mine, "Value is not numeric") <=> ~f.ok
              /\ (mine # <<>>) =>
                   (~mine[1].is_valid /\ mine[1].severity = rule.severity)
    /\ engine.record["total_receipts"] = Num(-5) =>
         /\ Len(ResultsOf(6)) = 1
         /\ ResultsOf(6)[1].message = <<"Value below minimum", ":", "0">>
    /\ engine.record["total_receipts"] = Str(<<"a", "b", "c">>) =>
         /\ Len(ResultsOf(6)) = 1
         /\ ResultsOf(6)[1].message = <<"Value is not numeric">>
    /\ engine.record["total_receipts"] \in {Num(0), Str(<<" ", "7">>)} => ResultsOf(6) = <<>>

\* records with receipts "abc" and with receipts over the maximum were validated
C18_Witness ==
  /\ Validated
  /\ engine.record["total_receipts"] \in {Str(<<"a", "b", "c">>), Num(20000000)}
  /\ Len(ResultsOf(6)) = 1
  /\ ResultsOf(6)[1].rule_name = "reasonable_receipts"
  /\ ResultsOf(6)[1].severity = "warning"

\* C19: a consistency rule with a reference field leaves a violation for a
\* record with a non-empty text in the target field iff the value of the
\* reference field is non-empty and is not, compared without case, a part of
\* the target text: address '123 Main St' with city 'Houston' is a violation.
C19_Consistency ==
  Validated =>
    \A k \in RuleIndices :
      LET rule == engine.validation_rules[k]
          target == engine.record[rule.field]
      IN (rule.enabled /\ rule.rule_type = "consistency"
            /\ rule.parameters.reference_field # NULL
            /\ target.kind = "str" /\ ~Missing(target)) =>
           LET ref_value == engine.record[rule.parameters.reference_field]
           IN HasMessage(ResultsOf(k), "Field should contain reference value from") <=>
                (Truthy(ref_value)
                   /\ ~Contains(Lower(StrOf(ref_value)), Lower(StrOf(target))))

\* C20: validate_record goes through the whole rule list whatever a rule does:
\* the results are in rule order with at most one per rule, a disabled rule
\* leaves none, an enabled rule whose application raises leaves one result with
\* is_valid = false and severity 'error' under its own name and field, and every
\* other enabled rule leaves what applying it alone gives.
C20_RuleErrors ==
  Validated =>
    /\ \A i, j \in 1..Len(engine.results) :
         i < j => engine.results[i].rule_index < engine.results[j].rule_index
    /\ \A k \in RuleIndices :
         LET rule == engine.validation_rules[k]
             mine == ResultsOf(k)
             alone == apply_rule(rule, engine.record, k)
         IN IF ~rule.enabled THEN mine = <<>>
            ELSE IF alone.raised
            THEN /\ Len(mine) = 1
                 /\ ~mine[1].is_valid
                 /\ mine[1].severity = "error"
                 /\ mine[1].rule_name = rule.name
                 /\ mine[1].field = rule.field
                 /\ StartsWith(mine[1].message, <<"Rule application error", ":">>)
            ELSE mine = alone.results

\* a rule of severity warning raised and a rule after it still left its result
C20_Witness ==
  /\ Validated
  /\ \E i, j \in 1..Len(engine.results) :
       /\ i < j
       /\ StartsWith(engine.results[i].message, <<"Rule application error", ":">>)
       /\ RuleOf(engine.results[i]).severity = "warning"
       /\ engine.results[i].severity = "error"
       /\ ~StartsWith(engine.results[j].message, <<"Rule application error", ":">>)

\* C27: after any sequence of create_enrichment_job_for_restaurant and
\* process_enrichment_job calls, a completed job has progress 100 and no error
\* message, a failed job has progress 0 and an error message, and a job has a
\* completion time iff its status is completed or failed.
C27_JobRecord ==
  \A j \in DOMAIN jobs :
    LET job == jobs[j]
    IN /\ job.status = "completed" => (job.progress = 100 /\ job.error_message = NoText)
       /\ job.status = "failed" => (job.progress = 0 /\ job.error_message # NoText)
       /\ (job.completed_at # NULL) <=> (job.status \in {"completed", "failed"})

\* C29: whenever the result of an enrichment has data_collected[t] = true, the
\* store holds a persisted result of task t for that entity; and a store_* call
\* that returns False leaves either no mark for t or an error or warning in the
\* result.
C29_CollectedIsStored ==
  \A c \in DOMAIN calls :
    (calls[c].pc = "done" /\ calls[c].kind \in {"enrich", "job"}) =>
      \A t \in calls[c].result.data_collected :
        \/ rows[calls[c].rid][t] # <<>>
        \/ calls[c].result.errors # <<>>
        \/ calls[c].result.warnings # <<>>

\* C30: persisting a task result replaces the previous one: after any sequence
\* of enrich_single_restaurant calls (repeated runs, repeated ids in a batch)
\* the store holds at most one row per (entity, task), and a row changes only
\* in a step in which a call persists for that pair, to the value of that call.
C30_Inv == \A r \in DOMAIN rows : \A t \in Tasks : Len(rows[r][t]) <= 1

C30_Step ==
  \A r \in DOMAIN rows : \A t \in Tasks :
    rows'[r][t] # rows[r][t] =>
      \E c \in DOMAIN calls :
        /\ Len(calls'[c].persisted) = Len(calls[c].persisted) + 1
        /\ LET w == calls'[c].persisted[Len(calls'[c].persisted)]
           IN w.rid = r /\ w.task = t /\ rows'[r][t] = <<w.value>>

C30_OneRowPerPair == []C30_Inv /\ [][C30_Step]_vars

\* the concept row of an earlier run was replaced by the one of this run,
\* while the square footage row of the earlier run is still there
C30_Witness ==
  /\ rows["r1"]["concept_classification"] = <<40>>
  /\ rows["r1"]["square_footage"] = EarlierRows["square_footage"]

\* C28: when two process_enrichment_job calls for the same job are interleaved
\* at their awaits, the enrichment of the job's entity is dispatched at most
\* once: no two calls for one job are suspended in a task at the same time.
C28_SingleDispatch ==
  \A j \in DOMAIN jobs :
    Cardinality({c \in DOMAIN calls :
                   calls[c].kind = "job" /\ calls[c].job_id = j /\ calls[c].pc \in Tasks}) <= 1

\* the text of a message before its first ':' (all of it when it has none)
BeforeColon(error) ==
  IF \E k \in 1..Len(error) : error[k] = ":"
  THEN LET k == CHOOSE i \in 1..Len(error) : error[i] = ":" /\ \A m \in 1..(i - 1) : error[m] # ":"
       IN SubSeq(error, 1, k - 1)
  ELSE error

\* the places of the error messages of a run: result i, message j
ErrorPlaces ==
  UNION {{<<i, j>> : j \in 1..Len(pipeline.all_results[i].errors)} :
           i \in 1..Len(pipeline.all_results)}

ErrorAt(o) == pipeline.all_results[o[1]].errors[o[2]]

RECURSIVE SumOver(_, _)
SumOver(f, keys) ==
  IF keys = {} THEN 0
  ELSE LET k == CHOOSE x \in keys : TRUE IN f[k] + SumOver(f, keys \ {k})

\* C26: error_summary is a histogram of all error messages of all results keyed
\* by the text before the first ':' of each: each key counts the messages with
\* that text before their first ':', every message has its key, and the counts
\* add up to the number of messages.
C26_ErrorHistogram ==
  pipeline.phase = "done" =>
    LET summary == pipeline.stats.error_summary
    IN /\ \A o \in ErrorPlaces : BeforeColon(ErrorAt(o)) \in DOMAIN summary
       /\ \A k \in DOMAIN summary :
            summary[k] = Cardinality({o \in ErrorPlaces : BeforeColon(ErrorAt(o)) = k})
       /\ SumOver(summary, DOMAIN summary) = Cardinality(ErrorPlaces)

\* a run ended with two crashes in one bucket, one of them with a ':' in the
\* text of its exception, and a failed task in another bucket
C26_Witness ==
  /\ pipeline.phase = "done"
  /\ \E o, p \in ErrorPlaces :
       /\ ErrorAt(o) = CrashMsg(<<"HTTPError", ":", "404">>)
       /\ ErrorAt(p) = CrashMsg(<<"timeout">>)
  /\ <<"Exception">> \in DOMAIN pipeline.stats.error_summary
  /\ pipeline.stats.error_summary[<<"Exception">>] = 2
  /\ Cardinality(DOMAIN pipeline.stats.error_summary) >= 2

FiveScores(report) ==
  {report.quality_score, report.completeness_score, report.accuracy_score,
   report.consistency_score, report.timeliness_score}

\* C21: each of the five scores of the report built by analyze_dataset_quality
\* (quality, completeness, accuracy, consistency, timeliness) lies between 0
\* and 1, and all five are 1.0 when the dataset has no records
C21_ScoresInRange ==
  analyzer.phase \in {"analyzed", "reported"} =>
    /\ analyzer.report.total_records = Len(analyzer.df)
    /\ \A s \in FiveScores(analyzer.report) : s \in 0..One
    /\ Len(analyzer.df) = 0 => FiveScores(analyzer.report) = {One}

\* a dataset with records was analyzed under a rule set that was added to, and
\* three of its scores came out strictly between 0 and 1
C21_Witness ==
  /\ analyzer.phase = "analyzed"
  /\ Len(analyzer.df) > 0
  /\ Len(analyzer.rules) > Len(DefaultRules)
  /\ \A s \in {analyzer.report.quality_score, analyzer.report.completeness_score,
                analyzer.report.consistency_score} : 0 < s /\ s < One

\* the rule evaluations of an analysis: one for each row and each enabled rule
Evaluations(rules, df) ==
  Len(df) * Cardinality({k \in 1..Len(rules) : rules[k].enabled})

\* C22: the accuracy score is the number of rule evaluations that passed
\* divided by the number of rule evaluations performed over all records,
\* rounded to three decimals; when k of n evaluations fail, 0 < k < n, it is
\* strictly between 0 and 1
C22_AccuracyIsShare ==
  analyzer.phase \in {"analyzed", "reported"} =>
    LET n == Evaluations(analyzer.rules, analyzer.df)
        k == Count(analyzer.report.validation_results, LAMBDA r : ~r.is_valid)
    IN /\ n > 0 => analyzer.report.accuracy_score \in Round3(n - k, n)
       /\ (0 < k /\ k < n) =>
            (0 < analyzer.report.accuracy_score /\ analyzer.report.accuracy_score < One)

\* the rows of df that hold a number in field f
NumbersOf(df, f) == {i \in 1..Len(df) : f \in Columns /\ df[i][f].kind = "num"}

\* row i holds a number in f that lies outside [Q1 - 1.5 * IQR, Q3 + 1.5 * IQR]
\* of the numbers in f (everything taken eight times)
OutsideFences(df, f, i) ==
  LET idx == NumbersOf(df, f)
      Q1 == Quantile4(df, f, idx, 1)
      Q3 == Quantile4(df, f, idx, 3)
  IN /\ i \in idx
     /\ \/ 8 * df[i][f].num < 2 * Q1 - 3 * (Q3 - Q1)
        \/ 8 * df[i][f].num > 2 * Q3 + 3 * (Q3 - Q1)

\* C23: outlier detection looks at a numeric field only when it has more than
\* 10 non-null numeric values: outlier_records holds, each once, exactly the
\* ids of the records outside [Q1 - 1.5 * IQR, Q3 + 1.5 * IQR] for some such
\* field, so a field with 10 or fewer values flags nothing whatever the spread,
\* and of 11 values with 10 near 100 and one of 5000 the record with 5000 is
\* flagged
C23_Outliers ==
  analyzer.phase \in {"analyzed", "reported"} =>
    LET df == analyzer.df
        fields == {NumericFields[n] : n \in 1..Len(NumericFields)}
        eligible == {f \in fields : Cardinality(NumbersOf(df, f)) > 10}
        receipts == NumbersOf(df, "total_receipts")
    IN /\ analyzer.report.outlier_records =
            {RecordId(df, i) : i \in {j \in 1..Len(df) :
                                        \E f \in eligible : OutsideFences(df, f, j)}}
       /\ eligible = {} => analyzer.report.outlier_records = {}
       /\ \A i \in receipts :
            (/\ Cardinality(receipts) = 11
             /\ df[i].total_receipts.num = 5000
             /\ \A j \in receipts \ {i} : df[j].total_receipts.num \in 90..110)
            => RecordId(df, i) \in analyzer.report.outlier_records

\* 10 rows with receipts near 100 and one with 5000 were analyzed, and the one
\* with 5000 is the outlier
C23_Witness ==
  /\ analyzer.phase = "analyzed"
  /\ Cardinality(NumbersOf(analyzer.df, "total_receipts")) = 11
  /\ \E i \in 1..Len(analyzer.df) :
       /\ analyzer.df[i].total_receipts = Num(5000)
       /\ \A j \in 1..Len(analyzer.df) :
            j # i => analyzer.df[j].total_receipts.num \in 90..110
       /\ analyzer.report.outlier_records = {RecordId(analyzer.df, i)}

\* 9 rows with receipts near 100 and one with 5000 were analyzed, and nothing
\* is flagged
C23_TenValues ==
  /\ analyzer.phase = "analyzed"
  /\ Cardinality(NumbersOf(analyzer.df, "total_receipts")) = 10
  /\ \E i \in 1..Len(analyzer.df) : analyzer.df[i].total_receipts = Num(5000)
  /\ analyzer.report.outlier_records = {}

\* the rows of df with the name, address and city of row i
GroupOf(df, i) ==
  {j \in 1..Len(df) :
     /\ df[j].location_name = df[i].location_name
     /\ df[j].location_address = df[i].location_address
     /\ df[j].location_city = df[i].location_city}

\* C24: duplicate_records holds exactly the ids of the records whose
\* (location_name, location_address, location_city) is shared with another
\* record: every member of a group of more than one (the first one too), and
\* no record whose tuple is its own
C24_Duplicates ==
  analyzer.phase \in {"analyzed", "reported"} =>
    \A i \in 1..Len(analyzer.df) :
      RecordId(analyzer.df, i) \in analyzer.report.duplicate_records
        <=> Cardinality(GroupOf(analyzer.df, i)) > 1

\* two rows with one name, address and city and a third, different row were
\* analyzed: the two are marked, the third is not
C24_Witness ==
  /\ analyzer.phase = "analyzed"
  /\ \E i, j, k \in 1..Len(analyzer.df) :
       /\ i < j
       /\ j \in GroupOf(analyzer.df, i)
       /\ k \notin GroupOf(analyzer.df, i)
       /\ analyzer.report.duplicate_records =
            {RecordId(analyzer.df, i), RecordId(analyzer.df, j)}

\* one of the thresholds of the reporter trips on the report
Trips(report) ==
  \/ report.quality_score < 700
  \/ report.completeness_score < 800
  \/ report.accuracy_score < 900
  \/ \E f \in DOMAIN report.errors_by_field.count :
       10 * report.errors_by_field.count[f] > report.total_records
  \/ 20 * Cardinality(report.outlier_records) > report.total_records
  \/ DOMAIN report.missing_data_patterns # {}

\* C25: the recommendations of the reporter are never empty; the positive
\* "quality is good" entry is among them exactly when no threshold trips
\* (quality below 0.7, completeness below 0.8, accuracy below 0.9, a field
\* with errors on more than 10% of the records, outliers on more than 5% of
\* the records, a missing-data pattern), and it is then the only entry; for a
\* dataset without records the list is that one entry
C25_Recommendations ==
  analyzer.phase = "reported" =>
    LET recs == analyzer.recommendations
    IN /\ Len(recs) > 0
       /\ (\E n \in 1..Len(recs) : recs[n] = QualityIsGood) <=> ~Trips(analyzer.report)
       /\ ~Trips(analyzer.report) => recs = <<QualityIsGood>>
       /\ Len(analyzer.df) = 0 => recs = <<QualityIsGood>>

\* the reporter found nothing to recommend for a dataset with records
C25_Witness ==
  /\ analyzer.phase = "reported"
  /\ Len(analyzer.df) > 0
  /\ ~Trips(analyzer.report)
  /\ analyzer.recommendations = <<QualityIsGood>>

\* the reporter recommended several things for a dataset, none of them the
\* positive entry
C25_SeveralTrip ==
  /\ analyzer.phase = "reported"
  /\ Len(analyzer.recommendations) > 2
  /\ \A n \in 1..Len(analyzer.recommendations) : analyzer.recommendations[n] # QualityIsGood

====
